---- MODULE Spec2Model ----
(***************************************************************************)
(* urwald: the reactive state container (state.ts).                        *)
(*                                                                         *)
(* Two variants of state() are modelled: the deep-reactive Proxy variant   *)
(* (state / observe / update, with get, set traps and the array mutator    *)
(* wrapper) and the simple value variant (value getter/setter, observe,    *)
(* update).  Both keep their observers in a JavaScript Set and notify with *)
(* Set.prototype.forEach.                                                  *)
(*                                                                         *)
(* Everything is synchronous and single threaded.  The only interleaving   *)
(* is re-entrancy: an observer callback, while it runs, may itself call    *)
(* observe, an unsubscribe handle, or mutate the state.  The call stack is *)
(* therefore explicit (stack): a frame is a running callback, a running    *)
(* forEach pass or a running updater function, and only the top frame can  *)
(* take a step.                                                            *)
(***************************************************************************)
EXTENDS Integers, Sequences, FiniteSets, TLC

\* ------------------------------------------------------------ bounds
NumObservers == 2      \* distinct observer callbacks
MaxVal == 1            \* primitive property values are 0..MaxVal
MaxLen == 2            \* longest array held in state.list
MaxOps == 2            \* API calls made in one behaviour (top level or from callbacks)
MaxCalls == 2          \* top-level API calls of a program whose callbacks make none
MaxUpdWrites == 2      \* mutations one updater function performs
MaxTimerOps == 3       \* calls on one debounced function in one behaviour
MaxTime == 4           \* the clock runs from 0 to MaxTime
MaxLate == 1           \* a timer runs at most MaxLate after it is due
MaxRouterOps == 4      \* calls and events on the router in one behaviour
MaxDep2Writes == 1     \* writes to the second dependency of a computed value

ObsIds == 1..NumObservers
Vals == 0..MaxVal
NoObs == 0

VARIABLES
  variant,       \* "deep" (Proxy variant) or "simple" (value variant)
  target,        \* deep: the cloned state object behind the proxy
  currentValue,  \* simple: the stored value
  observers,     \* the Set<Observer>, as its entries in insertion order
  stack,         \* the call stack of callbacks / forEach passes / updaters
  hFresh,        \* per observer: unsubscribe handles returned and never called
  hUsed,         \* per observer: some unsubscribe handle of it has been called
  nOps,          \* API calls made so far
  calls,         \* history: per observer, the number of times it was invoked since Init
  regTime,       \* history: per observer, when it was put in the Set (0: not in it)
  gone,          \* history: observers whose handle was called since their last observe
  ev,            \* history: the step that led to this state
  orig,          \* the object the caller passed to state(initialValue)
  dep2,          \* computed: a second state container the computed value depends on
  cmp,           \* computed: cachedValue, isValid and history of one computed value
  wh,            \* when: currentElement, currentCondition and the container's children
  rl,            \* renderList: elementMap and the container's children
  rt,            \* router: the window's location, the router's closure and container
  db,            \* debounce: the clock, the timer and the closure of one debounced function
  th,            \* throttle: the clock, the timer and the closure of one throttled function
  seen,          \* history: per observer, it was invoked after the last change of the value
  eq             \* isDeepEqual: the two values of one call, and what it returned

\* the state container
cvars == <<variant, target, currentValue, observers, stack, hFresh, hUsed,
           nOps, calls, regTime, gone, ev>>
\* what lives outside the container: the caller's object and the utilities
\* built on the container (utils.ts)
uvars == <<orig, dep2, cmp, wh, rl, rt, db, th, seen, eq>>

vars == <<cvars, uvars>>

\* ------------------------------------------------------------ the state object
\* The object handed to state(): a primitive at depth 1, 2 and 3 and an array.
LeafPaths == {<<"count">>, <<"profile", "age">>, <<"profile", "contact", "email">>}
ObjectPaths == {<<>>, <<"profile">>, <<"profile", "contact">>, <<"list">>}
Arrays == UNION {[1..n -> Vals] : n \in 0..MaxLen}

MkTarget(c, a, e, l) ==
  [count |-> c, profile |-> [age |-> a, contact |-> [email |-> e]], list |-> l]

\* Reflect.get along a property path
RECURSIVE GetPath(_, _)
GetPath(obj, path) ==
  IF path = <<>> THEN obj ELSE GetPath(obj[Head(path)], Tail(path))

\* Reflect.set on the object reached along a property path
RECURSIVE SetPath(_, _, _)
SetPath(obj, path, v) ==
  IF Len(path) = 1
  THEN [obj EXCEPT ![path[1]] = v]
  ELSE [obj EXCEPT ![Head(path)] = SetPath(obj[Head(path)], Tail(path), v)]

Prefix(path, n) == SubSeq(path, 1, n)

\* get trap, "value && typeof value === 'object'": the value read at `path`
\* is an object or array, and is returned wrapped by makeReactive.
getWraps_never(path) == FALSE
getWraps(path) == path \in ObjectPaths

\* The handle on which the last property of `path` is written is a proxy:
\* the root is makeReactive(target), and each get on the way returned a proxy.
makeReactive(path) ==
  \A i \in 1..(Len(path) - 1) : getWraps(Prefix(path, i))

\* set trap: "if (oldValue !== value)" decides whether to write and notify
setChanges(old, new) == old # new

\* simple variant, set value: always stores and notifies
setValueNotifies_ifChanged(old, new) == old # new
setValueNotifies(old, new) == TRUE

\* ------------------------------------------------------------ arrays
\* Array.prototype methods the get trap wraps (mutatingMethods)
mutatingMethods ==
  {"push", "pop", "shift", "unshift", "splice", "sort", "reverse", "fill"}

Min(a, b) == IF a < b THEN a ELSE b
Max(a, b) == IF a > b THEN a ELSE b

\* ToString of a non-negative integer, as its decimal digits
RECURSIVE Digits(_)
Digits(n) == IF n < 10 THEN <<n>> ELSE Append(Digits(n \div 10), n % 10)

\* s sorts strictly before t as a string (code unit order)
RECURSIVE StrLess(_, _)
StrLess(s, t) ==
  IF t = <<>> THEN FALSE
  ELSE IF s = <<>> THEN TRUE
  ELSE IF Head(s) # Head(t) THEN Head(s) < Head(t)
  ELSE StrLess(Tail(s), Tail(t))

\* Array.prototype.sort() with no comparator: by string value
JsSort(arr) == SortSeq(arr, LAMBDA a, b : StrLess(Digits(a), Digits(b)))

JsReverse(arr) == [i \in 1..Len(arr) |-> arr[Len(arr) + 1 - i]]

\* Array.prototype.splice(start, deleteCount, ...items) with start >= 0
JsSplice(arr, start, deleteCount, items) ==
  LET len == Len(arr)
      from == Min(start, len)
      del == Min(Max(deleteCount, 0), len - from)
  IN  SubSeq(arr, 1, from) \o items \o SubSeq(arr, from + del + 1, len)

\* Array.prototype.fill(value, start, end) with start, end >= 0
JsFill(arr, x, start, end) ==
  LET len == Len(arr)
      k == Min(start, len)
      final == Min(end, len)
  IN  [i \in 1..len |-> IF i > k /\ i <= final THEN x ELSE arr[i]]

\* One call of a mutating method: a record [method, x, s, n, items]
MethodCalls ==
  [method : {"push", "unshift"}, x : Vals, s : {0}, n : {0}, items : {<<>>}]
  \cup [method : {"pop", "shift", "sort", "reverse"}, x : {0}, s : {0}, n : {0},
        items : {<<>>}]
  \cup [method : {"splice"}, x : {0}, s : 0..MaxLen, n : {0, 1},
        items : {<<>>, <<0>>}]
  \cup [method : {"fill"}, x : Vals, s : {0, 1}, n : {1, MaxLen}, items : {<<>>}]

\* The array calls an updater function makes
UpdaterCalls == {c \in MethodCalls : c.method = "push" /\ c.x = 0}

\* The array after value.apply(target, args)
JsApply(c, arr) ==
  CASE c.method = "push" -> Append(arr, c.x)
    [] c.method = "pop" -> IF arr = <<>> THEN arr ELSE SubSeq(arr, 1, Len(arr) - 1)
    [] c.method = "shift" -> IF arr = <<>> THEN arr ELSE Tail(arr)
    [] c.method = "unshift" -> <<c.x>> \o arr
    [] c.method = "splice" -> JsSplice(arr, c.s, c.n, c.items)
    [] c.method = "sort" -> JsSort(arr)
    [] c.method = "reverse" -> JsReverse(arr)
    [] c.method = "fill" -> JsFill(arr, c.x, c.s, c.n)

\* get trap on an array: the function returned for a mutating method applies
\* the method to the raw array and then calls notifyObservers() once.
mutatorWrapper_noFill(c, arr) ==
  [arr |-> JsApply(c, arr), notify |-> c.method \in (mutatingMethods \ {"fill"})]
mutatorWrapper(c, arr) ==
  [arr |-> JsApply(c, arr), notify |-> c.method \in mutatingMethods]

\* ------------------------------------------------------------ the observer Set
\* A JavaScript Set keeps its entries in insertion order; add of a present
\* entry changes nothing, delete removes the entry, a later add appends.
SetHas(set, o) == \E i \in DOMAIN set : set[i] = o
SetAdd_front(set, o) == IF SetHas(set, o) THEN set ELSE <<o>> \o set
SetAdd(set, o) == IF SetHas(set, o) THEN set ELSE Append(set, o)
SetDelete(set, o) == SelectSeq(set, LAMBDA e : e # o)
SetPos(set, o) == CHOOSE i \in DOMAIN set : set[i] = o
SetElems(set) == {set[i] : i \in DOMAIN set}

\* ------------------------------------------------------------ call stack
Top == stack[Len(stack)]
Pop(stk) == SubSeq(stk, 1, Len(stk) - 1)
NumPass(stk) == Cardinality({i \in DOMAIN stk : stk[i].kind = "pass"})

\* A running observers.forEach(...).  cursor: entries of the Set already
\* passed.  snap, removed, cnt, ordered, lastReg are history of the pass:
\* the Set when it began, the observers unsubscribed since, how often each
\* observer was invoked by it, whether it invoked in registration order.
PassFrame ==
  [kind |-> "pass", cursor |-> 0, n |-> 0, snap |-> observers, removed |-> {},
   cnt |-> [o \in ObsIds |-> 0], lastReg |-> 0, ordered |-> TRUE]

\* A running observer callback, invoked by observe (replay) or by a pass
CbFrame(o, via) == [kind |-> "cb", obs |-> o, via |-> via]

\* A running updater function of update(); writes, effective, passes are
\* history: the mutations it made, those that changed something, the passes
\* they triggered; ops0 / calls0: nOps / calls when update was called.
UpdFrame ==
  [kind |-> "update", writes |-> 0, effective |-> 0, passes |-> 0,
   ops0 |-> nOps, calls0 |-> calls]

\* notifyObservers(): observers.forEach(observer => observer(state)) begins
notifyObservers(stk) == Append(stk, PassFrame)

\* Set.prototype.forEach: the next entry visited is the first not yet passed;
\* entries added during the pass are visited, deleted ones are not.
NextObs_snapshot(f) == IF f.n < Len(f.snap) THEN f.snap[f.n + 1] ELSE NoObs
NextObs(f) == IF f.cursor < Len(observers) THEN observers[f.cursor + 1] ELSE NoObs

\* Set.prototype.delete seen from a running forEach: an entry deleted
\* behind the cursor moves the cursor back with it.
DeleteInFrame_keepCursor(f, o) ==
  IF f.kind = "pass" THEN [f EXCEPT !.removed = @ \cup {o}] ELSE f
DeleteInFrame(f, o) ==
  IF f.kind = "pass"
  THEN [f EXCEPT !.removed = @ \cup {o},
                 !.cursor = IF SetHas(observers, o) /\ SetPos(observers, o) <= @
                            THEN @ - 1 ELSE @]
  ELSE f

\* ------------------------------------------------------------ initial state
Value == IF variant = "deep" THEN target ELSE currentValue

InitArrays == {<<>>, <<1, 0>>}

\* The Sets a program can have built by observe / unsubscribe calls made so
\* far: every duplicate-free sequence of observers.
InitSets ==
  {q \in UNION {[1..n -> ObsIds] : n \in 0..NumObservers} :
     \A i, j \in DOMAIN q : i # j => q[i] # q[j]}

\* The unsubscribe handles outstanding then.  A registered observer has the
\* handle of its last observe call; an unregistered one was never observed
\* or had a handle called.  (fresh, used) per observer:
InitHandles(q) ==
  {h \in [ObsIds -> {<<0, FALSE>>, <<0, TRUE>>, <<1, FALSE>>, <<1, TRUE>>}] :
     \A o \in ObsIds :
        IF SetHas(q, o) THEN h[o][1] = 1 ELSE h[o] # <<1, FALSE>>}

\* Every observer registered so far was invoked after the last change
AllSeen == [o \in ObsIds |-> TRUE]

\* A JavaScript value: a number, NaN, null, or an object with some of the
\* properties x and y; Missing stands for a property the object does not have
Num(n) == [t |-> "num", n |-> n]
NaN == [t |-> "nan", n |-> 0]
NullValue == [t |-> "null", n |-> 0]
Missing == [t |-> "missing", n |-> 0]
NoCompare == [a |-> NullValue, b |-> NullValue, same |-> FALSE, out |-> FALSE, done |-> FALSE]

\* No computed value, conditional or list has been created on the container
NoComputed ==
  [made |-> FALSE, cachedValue |-> <<>>, isValid |-> FALSE, getterCalls |-> 0,
   notes |-> 0, changed |-> FALSE, invoked |-> FALSE]
None == [branch |-> "none", id |-> 0]
NoWhen ==
  [made |-> FALSE, hasElse |-> FALSE, currentElement |-> None,
   currentCondition |-> FALSE, children |-> <<>>, renderCalls |-> 0,
   elseCalls |-> 0, domOps |-> 0, cleaned |-> FALSE, threw |-> FALSE]
NoList ==
  [made |-> FALSE, keyFn |-> "id", items |-> <<>>, elementMap |-> <<>>,
   children |-> <<>>, renderCalls |-> 0, lastItems |-> <<>>, cleaned |-> FALSE,
   renders |-> <<>>]

\* No router has been created; the page is at "/" with no query string
NoRouter ==
  [made |-> FALSE, routes |-> <<>>, loc |-> [pathname |-> "/", search |-> <<>>],
   currentQueryParams |-> <<>>, container |-> <<>>, cleanup |-> 0,
   queryObservers |-> <<>>, global |-> FALSE, renders |-> 0, cleanupCalls |-> <<>>,
   handed |-> {}, unsubscribed |-> {}, ops |-> 0, last |-> [kind |-> "none"], log |-> <<>>,
   notified |-> <<>>]

\* No debounced function has been created
NoDebounce ==
  [made |-> FALSE, now |-> 0, timeoutId |-> 0, timers |-> 0, pending |-> FALSE,
   due |-> 0, lastArgs |-> <<>>, result |-> <<>>, funcCalls |-> <<>>,
   calls |-> 0, lastCallAt |-> 0, ops |-> 0, cancelled |-> FALSE,
   last |-> [kind |-> "none"]]

\* No throttled function has been created
NoThrottle ==
  [made |-> FALSE, now |-> 0, lastCallTime |-> <<>>, timeoutId |-> 0, timers |-> 0,
   pending |-> FALSE, due |-> 0, lastArgs |-> <<>>, result |-> <<>>,
   funcCalls |-> <<>>, calls |-> 0, ops |-> 0, cancelled |-> FALSE, held |-> <<>>,
   last |-> [kind |-> "none"]]

NoUtils ==
  /\ dep2 = [val |-> 0, writes |-> 0]
  /\ cmp = NoComputed
  /\ wh = NoWhen
  /\ rl = NoList
  /\ rt = NoRouter
  /\ db = NoDebounce
  /\ th = NoThrottle
  /\ seen = AllSeen
  /\ eq = NoCompare

\* The container after construction and any number of earlier top-level
\* calls of observe and of unsubscribe handles.
InitContainer ==
  /\ variant \in {"deep", "simple"}
  /\ IF variant = "deep"
     THEN /\ \E c \in Vals, l \in InitArrays : target = MkTarget(c, 0, 0, l)
          /\ currentValue = 0
     ELSE /\ target = MkTarget(0, 0, 0, <<>>)
          /\ currentValue \in Vals
  /\ observers \in InitSets
  /\ stack = <<>>
  /\ \E h \in InitHandles(observers) :
       /\ hFresh = [o \in ObsIds |-> h[o][1]]
       /\ hUsed = [o \in ObsIds |-> h[o][2]]
       /\ gone = {o \in ObsIds : h[o][2] /\ ~SetHas(observers, o)}
  /\ nOps = 0
  /\ calls = [o \in ObsIds |-> 0]
  /\ regTime = [o \in ObsIds |-> IF SetHas(observers, o) THEN SetPos(observers, o) ELSE 0]
  /\ ev = [kind |-> "init"]

\* The program keeps no reference to the object it passed to state(): orig
\* is not followed.
Init == InitContainer /\ orig = MkTarget(0, 0, 0, <<>>) /\ NoUtils

\* An API call can be made by the program at top level, or by an observer
\* callback while it runs.  Callbacks observe, unsubscribe, write a property
\* or set the value; array calls and update are made at top level.
AtTop(kind) == IF stack = <<>> THEN FALSE ELSE Top.kind = kind
CanCall == nOps < MaxOps /\ (IF stack = <<>> THEN TRUE ELSE Top.kind = "cb")
AtTopLevel == nOps < MaxOps /\ stack = <<>>
InUpdater == IF AtTop("update") THEN Top.writes < MaxUpdWrites ELSE FALSE

\* ------------------------------------------------------------ observe / unsubscribe
\* observe(observer): observers.add(observer); observer(state)
observe_lazy(set, o) == [set |-> SetAdd(set, o), invoke |-> ~SetHas(set, o)]
observe(set, o) == [set |-> SetAdd(set, o), invoke |-> TRUE]

Observe(o) ==
  /\ CanCall
  /\ LET r == observe(observers, o) IN
       /\ observers' = r.set
       /\ regTime' = IF SetHas(r.set, o) /\ ~SetHas(observers, o)
                     THEN [regTime EXCEPT ![o] = NumObservers + nOps + 1] ELSE regTime
       /\ calls' = IF r.invoke THEN [calls EXCEPT ![o] = @ + 1] ELSE calls
       /\ stack' = IF r.invoke THEN Append(stack, CbFrame(o, "observe")) ELSE stack
       /\ hFresh' = IF r.invoke THEN hFresh ELSE [hFresh EXCEPT ![o] = @ + 1]
  /\ gone' = gone \ {o}
  /\ nOps' = nOps + 1
  /\ ev' = [kind |-> "observe", obs |-> o, val |-> Value, calls0 |-> calls]
  /\ UNCHANGED <<variant, target, currentValue, hUsed>>

\* The callback on top of the stack returns.  When it was the replay call of
\* observe, observe returns too and hands out its unsubscribe handle.
CallbackReturn ==
  /\ AtTop("cb")
  /\ stack' = Pop(stack)
  /\ hFresh' = IF Top.via = "observe" THEN [hFresh EXCEPT ![Top.obs] = @ + 1] ELSE hFresh
  /\ ev' = [kind |-> "return", obs |-> Top.obs, via |-> Top.via]
  /\ UNCHANGED <<variant, target, currentValue, observers, hUsed, nOps, calls,
                 regTime, gone>>

\* The unsubscribe handle: () => { observers.delete(observer) }.  `used`
\* tells whether the handle called has been called before.
Unsubscribe(o, used) ==
  /\ CanCall
  /\ IF used THEN hUsed[o] ELSE hFresh[o] > 0
  /\ observers' = SetDelete(observers, o)
  /\ stack' = [i \in DOMAIN stack |-> DeleteInFrame(stack[i], o)]
  /\ hFresh' = IF used THEN hFresh ELSE [hFresh EXCEPT ![o] = @ - 1]
  /\ hUsed' = [hUsed EXCEPT ![o] = TRUE]
  /\ regTime' = [regTime EXCEPT ![o] = 0]
  /\ gone' = gone \cup {o}
  /\ nOps' = nOps + 1
  /\ ev' = [kind |-> "unsubscribe", obs |-> o, repeat |-> used, had |-> SetHas(observers, o)]
  /\ UNCHANGED <<variant, target, currentValue, calls>>

\* ------------------------------------------------------------ deep variant: writes
\* state.a.b = v: get traps along the path, then the set trap (or, on a raw
\* object, a plain assignment).
WriteEffect(path, v) ==
  LET old == GetPath(target, path)
      proxied == makeReactive(path)
      chg == setChanges(old, v)
  IN  [target |-> IF ~proxied \/ chg THEN SetPath(target, path, v) ELSE target,
       notify |-> proxied /\ chg,
       old |-> old]

\* state.list.method(...args): get trap on the root, then on the array
CallEffect(c) ==
  LET proxied == makeReactive(<<"list", c.method>>)
      w == mutatorWrapper(c, target.list)
  IN  [target |-> [target EXCEPT !.list = w.arr], notify |-> proxied /\ w.notify]

\* The properties an updater function writes
UpdaterPaths == {<<"count">>, <<"profile", "age">>}

\* The running updater has made one more mutation
Noted(stk, effective, notify) ==
  [stk EXCEPT ![Len(stk)] =
     [@ EXCEPT !.writes = @ + 1,
               !.effective = @ + (IF effective THEN 1 ELSE 0),
               !.passes = @ + (IF notify THEN 1 ELSE 0)]]

Write(path, v) ==
  /\ variant = "deep" /\ CanCall
  /\ LET e == WriteEffect(path, v) IN
       /\ target' = e.target
       /\ stack' = IF e.notify THEN notifyObservers(stack) ELSE stack
       /\ ev' = [kind |-> "write", path |-> path, val |-> v, old |-> e.old]
  /\ nOps' = nOps + 1
  /\ UNCHANGED <<variant, currentValue, observers, hFresh, hUsed, calls, regTime, gone>>

\* state.list = [...]: an array literal is never === the stored value
AssignList(arr) ==
  /\ variant = "deep" /\ AtTopLevel
  /\ target' = [target EXCEPT !.list = arr]
  /\ stack' = notifyObservers(stack)
  /\ ev' = [kind |-> "assignList", val |-> arr]
  /\ nOps' = nOps + 1
  /\ UNCHANGED <<variant, currentValue, observers, hFresh, hUsed, calls, regTime, gone>>

ArrayCall(c) ==
  /\ variant = "deep" /\ AtTopLevel
  /\ Len(JsApply(c, target.list)) <= MaxLen
  /\ LET e == CallEffect(c) IN
       /\ target' = e.target
       /\ stack' = IF e.notify THEN notifyObservers(stack) ELSE stack
       /\ ev' = [kind |-> "array", call |-> c, old |-> target.list]
  /\ nOps' = nOps + 1
  /\ UNCHANGED <<variant, currentValue, observers, hFresh, hUsed, calls, regTime, gone>>

\* ------------------------------------------------------------ deep variant: update
\* update(updater): updater(reactiveState); nothing is done with its result
\* and there is no explicit notification.
updateNotifies_explicit == TRUE
updateNotifies == FALSE

UpdateCall ==
  /\ variant = "deep" /\ AtTopLevel
  /\ stack' = Append(stack, UpdFrame)
  /\ ev' = [kind |-> "update"]
  /\ nOps' = nOps + 1
  /\ UNCHANGED <<variant, target, currentValue, observers, hFresh, hUsed, calls,
                 regTime, gone>>

UpdaterWrite(path, v) ==
  /\ InUpdater
  /\ LET e == WriteEffect(path, v) IN
       /\ target' = e.target
       /\ stack' = IF e.notify THEN notifyObservers(Noted(stack, e.old # v, TRUE))
                   ELSE Noted(stack, e.old # v, FALSE)
       /\ ev' = [kind |-> "write", path |-> path, val |-> v, old |-> e.old]
  /\ UNCHANGED <<variant, currentValue, observers, hFresh, hUsed, nOps, calls,
                 regTime, gone>>

UpdaterArrayCall(c) ==
  /\ InUpdater
  /\ Len(JsApply(c, target.list)) <= MaxLen
  /\ LET e == CallEffect(c) IN
       /\ target' = e.target
       /\ stack' = IF e.notify THEN notifyObservers(Noted(stack, TRUE, TRUE))
                   ELSE Noted(stack, TRUE, FALSE)
       /\ ev' = [kind |-> "array", call |-> c, old |-> target.list]
  /\ UNCHANGED <<variant, currentValue, observers, hFresh, hUsed, nOps, calls,
                 regTime, gone>>

\* What an updater returns: its argument (the live proxy), or a new object
\* {...current, count: v}
Returns ==
  {[kind |-> "arg", obj |-> target]}
  \cup {[kind |-> "new", obj |-> [target EXCEPT !.count = v]] : v \in Vals}

UpdateReturn(ret) ==
  /\ AtTop("update")
  /\ stack' = IF updateNotifies THEN notifyObservers(Pop(stack)) ELSE Pop(stack)
  /\ ev' = [kind |-> "updateReturn", ret |-> ret, writes |-> Top.writes,
            effective |-> Top.effective,
            passes |-> Top.passes + (IF updateNotifies THEN 1 ELSE 0),
            quiet |-> (nOps = Top.ops0 + 1), calls0 |-> Top.calls0]
  /\ UNCHANGED <<variant, target, currentValue, observers, hFresh, hUsed, nOps,
                 calls, regTime, gone>>

\* ------------------------------------------------------------ simple variant
\* set value(newValue): currentValue = newValue; notifyObservers()
SetValue(v) ==
  /\ variant = "simple" /\ CanCall
  /\ currentValue' = v
  /\ stack' = IF setValueNotifies(currentValue, v) THEN notifyObservers(stack) ELSE stack
  /\ ev' = [kind |-> "setValue", val |-> v, old |-> currentValue]
  /\ nOps' = nOps + 1
  /\ UNCHANGED <<variant, target, observers, hFresh, hUsed, calls, regTime, gone>>

\* Pure updater functions of the simple variant
Updaters == {"inc", "same", "zero"}
ApplyUpdater(f, v) ==
  CASE f = "inc" -> (v + 1) % (MaxVal + 1)
    [] f = "same" -> v
    [] f = "zero" -> 0

\* update(updater): currentValue = updater(currentValue); notifyObservers()
UpdateSimple(f) ==
  /\ variant = "simple" /\ CanCall
  /\ currentValue' = ApplyUpdater(f, currentValue)
  /\ stack' = notifyObservers(stack)
  /\ ev' = [kind |-> "updateSimple", ret |-> ApplyUpdater(f, currentValue)]
  /\ nOps' = nOps + 1
  /\ UNCHANGED <<variant, target, observers, hFresh, hUsed, calls, regTime, gone>>

\* ------------------------------------------------------------ notification pass
\* One iteration of observers.forEach: the next observer is invoked
PassInvoke ==
  /\ AtTop("pass")
  /\ NextObs(Top) # NoObs
  /\ LET o == NextObs(Top)
         f == [Top EXCEPT !.cursor = @ + 1, !.n = @ + 1, !.cnt[o] = @ + 1,
                          !.ordered = @ /\ regTime[o] > Top.lastReg,
                          !.lastReg = regTime[o]]
     IN /\ stack' = Append([stack EXCEPT ![Len(stack)] = f], CbFrame(o, "pass"))
        /\ calls' = [calls EXCEPT ![o] = @ + 1]
        /\ ev' = [kind |-> "notify", obs |-> o, val |-> Value]
  /\ UNCHANGED <<variant, target, currentValue, observers, hFresh, hUsed, nOps,
                 regTime, gone>>

\* forEach has no entry left: notifyObservers returns
PassEnd ==
  /\ AtTop("pass")
  /\ NextObs(Top) = NoObs
  /\ stack' = Pop(stack)
  /\ ev' = [kind |-> "passEnd"]
  /\ UNCHANGED <<variant, target, currentValue, observers, hFresh, hUsed, nOps,
                 calls, regTime, gone>>

\* A call on the container alone: nothing outside the container changes
Alone(A) == A /\ UNCHANGED uvars

Next ==
  \/ \E o \in ObsIds : Alone(Observe(o))
  \/ Alone(CallbackReturn)
  \/ \E o \in ObsIds, used \in BOOLEAN : Alone(Unsubscribe(o, used))
  \/ \E path \in LeafPaths, v \in Vals : Alone(Write(path, v))
  \/ \E arr \in {<<>>} : Alone(AssignList(arr))
  \/ \E c \in MethodCalls : Alone(ArrayCall(c))
  \/ Alone(UpdateCall)
  \/ \E path \in LeafPaths, v \in Vals : Alone(UpdaterWrite(path, v))
  \/ \E c \in UpdaterCalls : Alone(UpdaterArrayCall(c))
  \/ \E ret \in Returns : Alone(UpdateReturn(ret))
  \/ \E v \in Vals : Alone(SetValue(v))
  \/ \E f \in Updaters : Alone(UpdateSimple(f))
  \/ Alone(PassInvoke)
  \/ Alone(PassEnd)

Spec == Init /\ [][Next]_vars

\* ------------------------------------------------------------ focused specifications
\* Observers and re-entrancy: observe / unsubscribe / a mutation of the value,
\* called at top level and from inside observer callbacks.
InitReact == Init /\ target = MkTarget(0, 0, 0, <<>>)

NextReact ==
  \/ \E o \in ObsIds : Alone(Observe(o))
  \/ Alone(CallbackReturn)
  \/ \E o \in ObsIds, used \in BOOLEAN : Alone(Unsubscribe(o, used))
  \/ \E v \in Vals : Alone(Write(<<"count">>, v))
  \/ \E v \in Vals : Alone(SetValue(v))
  \/ Alone(PassInvoke)
  \/ Alone(PassEnd)

SpecReact == InitReact /\ [][NextReact]_vars

\* Mutations: every mutating call of the API, made at top level by a program
\* whose observer callbacks only read the state.
InitData ==
  /\ Init
  /\ \A o \in ObsIds : ~hUsed[o]
  /\ \A i \in DOMAIN observers : observers[i] = i

NextData ==
  \/ /\ stack = <<>>
     /\ nOps < MaxCalls
     /\ \/ \E o \in ObsIds : Alone(Observe(o))
        \/ \E path \in LeafPaths, v \in Vals : Alone(Write(path, v))
        \/ \E arr \in {<<>>} : Alone(AssignList(arr))
        \/ \E c \in MethodCalls : Alone(ArrayCall(c))
        \/ Alone(UpdateCall)
        \/ \E v \in Vals : Alone(SetValue(v))
        \/ \E f \in Updaters : Alone(UpdateSimple(f))
  \/ Alone(CallbackReturn)
  \/ \E path \in UpdaterPaths, v \in Vals : Alone(UpdaterWrite(path, v))
  \/ \E c \in UpdaterCalls : Alone(UpdaterArrayCall(c))
  \/ \E ret \in Returns : Alone(UpdateReturn(ret))
  \/ Alone(PassInvoke)
  \/ Alone(PassEnd)

SpecData == InitData /\ [][NextData]_vars

\* ------------------------------------------------------------ the caller's initialValue
\* state(initialValue): const target = structuredClone(initialValue).  Of the
\* objects and arrays of initialValue (given by their paths), those that the
\* container's target holds by reference: none, the clone is deep.
structuredClone_shallow(nodes) == nodes \ {<<>>}
structuredClone(nodes) == {}

SharedNodes == structuredClone(ObjectPaths)
Parent(path) == Prefix(path, Len(path) - 1)

\* The calls the caller makes on the array of its own object
OriginalCalls == {c \in MethodCalls : c.method \in {"push", "pop"}}

\* The caller writes a property of its own object: initialValue.a.b = v
MutateOriginal(path, v) ==
  /\ variant = "deep"
  /\ orig' = SetPath(orig, path, v)
  /\ target' = IF Parent(path) \in SharedNodes THEN SetPath(target, path, v) ELSE target
  /\ ev' = [kind |-> "mutateOriginal", path |-> path, val |-> v,
            old |-> GetPath(orig, path)]
  /\ nOps' = nOps + 1
  /\ UNCHANGED <<variant, currentValue, observers, stack, hFresh, hUsed, calls,
                 regTime, gone>>

\* The caller mutates the array of its own object: initialValue.list.push(x)
MutateOriginalList(c) ==
  /\ variant = "deep"
  /\ Len(JsApply(c, orig.list)) <= MaxLen
  /\ orig' = [orig EXCEPT !.list = JsApply(c, @)]
  /\ target' = IF <<"list">> \in SharedNodes
               THEN [target EXCEPT !.list = JsApply(c, @)] ELSE target
  /\ ev' = [kind |-> "mutateOriginalList", call |-> c, old |-> orig.list]
  /\ nOps' = nOps + 1
  /\ UNCHANGED <<variant, currentValue, observers, stack, hFresh, hUsed, calls,
                 regTime, gone>>

\* What the caller's object shows after the container changed the object or
\* array at `node` of its target
Mirror(node) ==
  orig' = IF node \notin SharedNodes THEN orig
          ELSE IF node = <<>> THEN target'
          ELSE SetPath(orig, node, GetPath(target', node))

\* A program that keeps the object it passed to state() and mutates both it
\* and the container, at top level; its observer callbacks only read.
InitCopy ==
  /\ InitContainer /\ NoUtils
  /\ variant = "deep" /\ orig = target
  /\ \A o \in ObsIds : ~hUsed[o]
  /\ \A i \in DOMAIN observers : observers[i] = i

\* A call the program makes at top level
TopLevelCall == stack = <<>> /\ nOps < MaxCalls

notCopy == <<dep2, cmp, wh, rl, rt, db, th, seen, eq>>

NextCopy ==
  \/ \E o \in ObsIds : TopLevelCall /\ Alone(Observe(o))
  \/ \E path \in LeafPaths, v \in Vals :
        TopLevelCall /\ Write(path, v) /\ Mirror(Parent(path)) /\ UNCHANGED notCopy
  \/ \E c \in MethodCalls :
        TopLevelCall /\ ArrayCall(c) /\ Mirror(<<"list">>) /\ UNCHANGED notCopy
  \/ \E path \in LeafPaths, v \in Vals :
        TopLevelCall /\ MutateOriginal(path, v) /\ UNCHANGED notCopy
  \/ \E c \in OriginalCalls :
        TopLevelCall /\ MutateOriginalList(c) /\ UNCHANGED notCopy
  \/ Alone(CallbackReturn)
  \/ Alone(PassInvoke)
  \/ Alone(PassEnd)

SpecCopy == InitCopy /\ [][NextCopy]_vars

\* ------------------------------------------------------------ deep variant: delete
\* What a declared property holds when the object has no such property
\* (Reflect.get then gives undefined, which is !== every value of Vals)
Absent == MaxVal + 1

\* deleteProperty trap: "if (prop in target)" decides whether to delete and
\* notify
deleteNotifies_always(obj, prop) == TRUE
deleteNotifies(obj, prop) == obj[prop] # Absent

\* delete state.a.b: get traps along the path, then the deleteProperty trap
\* (or, on a raw object, a plain delete)
DeleteEffect(path) ==
  LET obj == GetPath(target, Parent(path))
      prop == path[Len(path)]
      proxied == makeReactive(path)
  IN  [target |-> IF obj[prop] # Absent THEN SetPath(target, path, Absent) ELSE target,
       notify |-> proxied /\ deleteNotifies(obj, prop),
       old |-> obj[prop]]

DeleteProperty(path) ==
  /\ variant = "deep" /\ CanCall
  /\ LET e == DeleteEffect(path) IN
       /\ target' = e.target
       /\ stack' = IF e.notify THEN notifyObservers(stack) ELSE stack
       /\ ev' = [kind |-> "delete", path |-> path, old |-> e.old]
  /\ nOps' = nOps + 1
  /\ UNCHANGED <<variant, currentValue, observers, hFresh, hUsed, calls, regTime, gone>>

\* A program that writes and deletes properties at top level; its observer
\* callbacks only read.
NextDelete ==
  \/ \E path \in LeafPaths, v \in Vals : TopLevelCall /\ Alone(Write(path, v))
  \/ \E path \in LeafPaths : TopLevelCall /\ Alone(DeleteProperty(path))
  \/ Alone(CallbackReturn)
  \/ Alone(PassInvoke)
  \/ Alone(PassEnd)

InitDelete == InitData /\ variant = "deep"

SpecDelete == InitDelete /\ [][NextDelete]_vars

\* ------------------------------------------------------------ quiescence
\* History kept along a call A of the container: a step that changes the
\* value makes every observer's last invocation an old one; a step that
\* invokes an observer (observe's replay, one iteration of forEach) makes
\* that observer's last invocation a current one.
notSeen == <<orig, dep2, cmp, wh, rl, rt, db, th, eq>>

Follow(A) ==
  /\ A
  /\ seen' = IF Value' # Value THEN [o \in ObsIds |-> FALSE]
             ELSE IF ev'.kind \in {"notify", "observe"} THEN [seen EXCEPT ![ev'.obs] = TRUE]
             ELSE seen
  /\ UNCHANGED notSeen

\* A program that mutates the state at top level (property write, array
\* mutator, update, value setter) and whose observer callbacks observe,
\* unsubscribe and write the state while a pass is running.
NextQuiescent ==
  \/ \E o \in ObsIds : Follow(Observe(o))
  \/ Follow(CallbackReturn)
  \/ \E o \in ObsIds, used \in BOOLEAN : Follow(Unsubscribe(o, used))
  \/ \E v \in Vals : Follow(Write(<<"count">>, v))
  \/ \E c \in UpdaterCalls : Follow(ArrayCall(c))
  \/ Follow(UpdateCall)
  \/ \E v \in Vals : Follow(UpdaterWrite(<<"count">>, v))
  \/ Follow(UpdateReturn([kind |-> "arg", obj |-> target]))
  \/ \E v \in Vals : Follow(SetValue(v))
  \/ \E f \in Updaters : Follow(UpdateSimple(f))
  \/ Follow(PassInvoke)
  \/ Follow(PassEnd)

\* No unsubscribe handle has been called yet
InitQuiescent == InitReact /\ \A o \in ObsIds : ~hUsed[o]

SpecQuiescent == InitQuiescent /\ [][NextQuiescent]_vars

\* ------------------------------------------------------------ computed
\* computed(getter, [D1, D2]).  D1 is the container above; D2 is a second
\* container, state({count: 0}), on which only the computed value observes.
\* The getter reads its declared dependencies and nothing else.
Getter == <<target.count, Len(target.list), dep2.val>>

\* The observer callback a utility (computed, when, renderList) registers on
\* the container; for computed: () => { isValid = false }
UtilObs == 1

\* dep.observe(() => { isValid = false }): the callback runs.  notes is
\* history: the runs of the callback since creation or the last invoke().
invalidate_keep(c) == [c EXCEPT !.notes = Min(@ + 1, 3)]
invalidate(c) == [c EXCEPT !.isValid = FALSE, !.notes = Min(@ + 1, 3)]

\* The function computed returns: if (!isValid) { cachedValue = getter();
\* isValid = true }  return cachedValue.  `fresh` is what getter() returns.
invoke_always(c, fresh) ==
  [c EXCEPT !.cachedValue = fresh, !.isValid = TRUE, !.getterCalls = @ + 1,
            !.notes = 0, !.invoked = TRUE]
invoke(c, fresh) ==
  IF ~c.isValid
  THEN [c EXCEPT !.cachedValue = fresh, !.isValid = TRUE, !.getterCalls = @ + 1,
                 !.notes = 0, !.invoked = TRUE]
  ELSE [c EXCEPT !.notes = 0, !.invoked = TRUE]

\* A call made by the program at top level or by the callback of a plain
\* observer; the callbacks the utilities register make no calls.
PlainCall(util) ==
  IF stack = <<>> THEN TRUE ELSE Top.kind = "cb" /\ Top.obs # util

notCmp == <<orig, wh, rl, rt, db, th, seen, eq>>

\* computed(getter, dependencies): cachedValue = getter(); isValid = true;
\* then dep.observe(...) on every dependency, each of which replays its
\* callback at once.
CreateComputed ==
  /\ stack = <<>> /\ ~cmp.made
  /\ Observe(UtilObs)
  /\ LET c0 == [made |-> TRUE, cachedValue |-> Getter, isValid |-> TRUE,
                getterCalls |-> 1, notes |-> 0, changed |-> FALSE, invoked |-> FALSE]
         d1 == IF observe(observers, UtilObs).invoke THEN invalidate(c0) ELSE c0
         d2 == IF observe(<<>>, UtilObs).invoke THEN invalidate(d1) ELSE d1
     IN cmp' = d2
  /\ UNCHANGED <<dep2, notCmp>>

\* invoke(): the function computed returned is called
Invoke ==
  /\ cmp.made /\ PlainCall(UtilObs)
  /\ cmp' = invoke(cmp, Getter)
  /\ ev' = [kind |-> "invoke", got |-> cmp'.cachedValue, calls0 |-> cmp.getterCalls,
            notes |-> cmp.notes, again |-> cmp.invoked, top |-> stack = <<>>]
  /\ UNCHANGED <<variant, target, currentValue, observers, stack, hFresh, hUsed,
                 nOps, calls, regTime, gone, dep2, notCmp>>

\* A call on D1 that is none of the computed value's: if it changed D1, the
\* dependencies have changed since the computed value was created
OnD1(A) ==
  /\ TopLevelCall
  /\ A
  /\ cmp' = IF cmp.made /\ target' # target THEN [cmp EXCEPT !.changed = TRUE] ELSE cmp
  /\ UNCHANGED <<dep2, notCmp>>

\* D2.state.count = v: the set trap of D2, and its notification pass, which
\* invokes the only observer of D2
Dep2Write(v) ==
  /\ stack = <<>>
  /\ dep2.writes < MaxDep2Writes
  /\ dep2' = [val |-> v, writes |-> dep2.writes + 1]
  /\ cmp' = IF cmp.made /\ setChanges(dep2.val, v)
            THEN [invalidate(cmp) EXCEPT !.changed = TRUE] ELSE cmp
  /\ ev' = [kind |-> "dep2Write", val |-> v, old |-> dep2.val]
  /\ UNCHANGED <<variant, target, currentValue, observers, stack, hFresh, hUsed,
                 nOps, calls, regTime, gone, notCmp>>

\* One iteration of forEach on D1: when the observer invoked is the
\* computed value's callback, it runs
ComputedPassInvoke ==
  /\ PassInvoke
  /\ cmp' = IF NextObs(Top) = UtilObs THEN invalidate(cmp) ELSE cmp
  /\ UNCHANGED <<dep2, notCmp>>

\* The container before a utility is created on it; plain observers may be
\* registered already.
PlainObserversOnly ==
  /\ variant = "deep"
  /\ ~SetHas(observers, UtilObs)
  /\ \A o \in ObsIds : ~hUsed[o]
  /\ \A i \in DOMAIN observers : observers[i] = i + 1

InitUtil == Init /\ PlainObserversOnly

\* A program that creates one computed value on D1 and D2 and mutates both
\* at top level; it calls invoke() at top level and from the callbacks of
\* plain observers of D1.
NextComputed ==
  \/ CreateComputed
  \/ Invoke
  \/ \E o \in ObsIds \ {UtilObs} : OnD1(Observe(o))
  \/ \E path \in UpdaterPaths, v \in Vals : OnD1(Write(path, v))
  \/ \E c \in OriginalCalls : OnD1(ArrayCall(c))
  \/ \E v \in Vals : Dep2Write(v)
  \/ Alone(CallbackReturn)
  \/ ComputedPassInvoke
  \/ Alone(PassEnd)

SpecComputed == InitUtil /\ [][NextComputed]_vars

\* ------------------------------------------------------------ when
\* DOM nodes: the node made by the n-th call of render() or else(), and a
\* child the container has that is not the controller's
Node(branch, n) == [branch |-> branch, id |-> n]
Foreign == Node("foreign", 0)
OwnNodes(children) ==
  {children[i] : i \in {j \in DOMAIN children : children[j].branch \in {"render", "else"}}}

\* container.contains(node), for the children of the container
Contains(children, node) == \E i \in DOMAIN children : children[i] = node

\* container.removeChild(node), on the controller record w: throws when node
\* is not a child of the container
removeChild_keep(w, node) ==
  IF Contains(w.children, node)
  THEN [w EXCEPT !.domOps = @ + 1]
  ELSE [w EXCEPT !.threw = TRUE]
removeChild(w, node) ==
  IF Contains(w.children, node)
  THEN [w EXCEPT !.children = SelectSeq(@, LAMBDA n : n # node), !.domOps = @ + 1]
  ELSE [w EXCEPT !.threw = TRUE]

\* condition(state) of the model: state.count is at least 1
Condition == target.count >= 1

\* renderElement(shouldRender)
renderElement_noGuard(w, shouldRender) ==
  LET w1 == [removeChild(w, w.currentElement) EXCEPT !.currentElement = None]
      n == w1.renderCalls + w1.elseCalls + 1
      w2 == IF shouldRender
            THEN [w1 EXCEPT !.currentElement = Node("render", n), !.renderCalls = @ + 1]
            ELSE IF w1.hasElse
            THEN [w1 EXCEPT !.currentElement = Node("else", n), !.elseCalls = @ + 1]
            ELSE w1
      w3 == IF w2.currentElement # None
            THEN [w2 EXCEPT !.children = Append(@, w2.currentElement), !.domOps = @ + 1]
            ELSE w2
  IN  [w3 EXCEPT !.currentCondition = shouldRender]
renderElement(w, shouldRender) ==
  LET w1 == IF w.currentElement # None
            THEN [removeChild(w, w.currentElement) EXCEPT !.currentElement = None]
            ELSE w
      n == w1.renderCalls + w1.elseCalls + 1
      w2 == IF shouldRender
            THEN [w1 EXCEPT !.currentElement = Node("render", n), !.renderCalls = @ + 1]
            ELSE IF w1.hasElse
            THEN [w1 EXCEPT !.currentElement = Node("else", n), !.elseCalls = @ + 1]
            ELSE w1
      w3 == IF w2.currentElement # None
            THEN [w2 EXCEPT !.children = Append(@, w2.currentElement), !.domOps = @ + 1]
            ELSE w2
  IN  [w3 EXCEPT !.currentCondition = shouldRender]

\* The observer callback of when: newCondition = condition(newState);
\* if (newCondition !== currentCondition) renderElement(newCondition)
whenObserver_always(w, newCondition) == renderElement(w, newCondition)
whenObserver(w, newCondition) ==
  IF newCondition # w.currentCondition THEN renderElement(w, newCondition) ELSE w

\* The DOM part of the function when returns: if (currentElement &&
\* container.contains(currentElement)) container.removeChild(currentElement)
whenCleanup_keepNode(w) == [w EXCEPT !.cleaned = TRUE]
whenCleanup(w) ==
  IF w.currentElement # None /\ Contains(w.children, w.currentElement)
  THEN [removeChild(w, w.currentElement) EXCEPT !.cleaned = TRUE]
  ELSE [w EXCEPT !.cleaned = TRUE]

notWhen == <<orig, dep2, cmp, rl, rt, db, th, seen, eq>>

\* when({state, condition, render, else, container}): renderElement(
\* condition(state.state)), then state.observe(callback), which replays the
\* callback at once
CreateWhen(hasElse, children) ==
  /\ stack = <<>> /\ ~wh.made
  /\ LET w0 == [NoWhen EXCEPT !.made = TRUE, !.hasElse = hasElse, !.children = children]
         w1 == renderElement(w0, Condition)
         r == observe(observers, UtilObs)
     IN /\ wh' = IF r.invoke THEN whenObserver(w1, Condition) ELSE w1
        /\ observers' = r.set
        /\ calls' = IF r.invoke THEN [calls EXCEPT ![UtilObs] = @ + 1] ELSE calls
        /\ stack' = IF r.invoke THEN Append(stack, CbFrame(UtilObs, "observe")) ELSE stack
        /\ hFresh' = IF r.invoke THEN hFresh ELSE [hFresh EXCEPT ![UtilObs] = @ + 1]
  /\ regTime' = [regTime EXCEPT ![UtilObs] = NumObservers + nOps + 1]
  /\ ev' = [kind |-> "when", obs |-> UtilObs, val |-> Value]
  /\ UNCHANGED <<variant, target, currentValue, hUsed, nOps, gone, notWhen>>

\* The function when returned is called: unsubscribe(), then the DOM part
Cleanup ==
  /\ wh.made /\ PlainCall(UtilObs)
  /\ Unsubscribe(UtilObs, wh.cleaned)
  /\ wh' = whenCleanup(wh)
  /\ UNCHANGED notWhen

\* One iteration of forEach: when the observer invoked is the callback of
\* when, it runs on the live state
WhenPassInvoke ==
  /\ PassInvoke
  /\ wh' = IF NextObs(Top) = UtilObs THEN whenObserver(wh, Condition) ELSE wh
  /\ UNCHANGED notWhen

\* A program that creates one conditional on the container, writes the state
\* and calls the cleanup, at top level and from the callbacks of plain
\* observers.
NextWhen ==
  \/ \E hasElse \in BOOLEAN, children \in {<<>>, <<Foreign>>} : CreateWhen(hasElse, children)
  \/ Cleanup
  \/ \E o \in ObsIds \ {UtilObs} : PlainCall(UtilObs) /\ Alone(Observe(o))
  \/ \E path \in UpdaterPaths, v \in Vals : PlainCall(UtilObs) /\ Alone(Write(path, v))
  \/ Alone(CallbackReturn)
  \/ WhenPassInvoke
  \/ Alone(PassEnd)

SpecWhen == InitUtil /\ [][NextWhen]_vars

\* ------------------------------------------------------------ renderList
\* state.items: an array of objects {id, text}
Items == [id : 1..MaxLen, text : Vals]
InitItems == {<<>>, <<[id |-> 1, text |-> 0], [id |-> 2, text |-> 0]>>}

\* Two more values a property of an item can hold: null and Infinity
Null == MaxVal + 2
Infinity == MaxVal + 3

\* How JSON.stringify writes a primitive: a number that is not finite is
\* written as null
JSONvalue(v) == IF v = Infinity THEN Null ELSE v

\* getItemKey(item): (item) => item.id, or the default JSON.stringify(item)
KeyOf(keyFn, item) ==
  IF keyFn = "id" THEN <<item.id>> ELSE <<item.id, JSONvalue(item.text)>>
KeysOf(keyFn, items) == {KeyOf(keyFn, items[i]) : i \in DOMAIN items}

\* isDeepEqual(a, b) on two objects with primitive values
isDeepEqual_keysOnly(a, b) == DOMAIN a = DOMAIN b
isDeepEqual(a, b) == DOMAIN a = DOMAIN b /\ \A k \in DOMAIN a : a[k] = b[k]

\* elementMap.set(key, entry)
MapSet_keepFirst(map, key, entry) ==
  [k \in DOMAIN map \cup {key} |-> IF k \in DOMAIN map THEN map[k] ELSE entry]
MapSet(map, key, entry) ==
  [k \in DOMAIN map \cup {key} |-> IF k = key THEN entry ELSE map[k]]

\* container.replaceChild(element, old)
replaceChild_atEnd(children, element, old) ==
  Append(SelectSeq(children, LAMBDA n : n # old), element)
replaceChild(children, element, old) ==
  [i \in DOMAIN children |-> IF children[i] = old THEN element ELSE children[i]]

\* items.forEach((item) => { ... }) of the observer callback of renderList
RECURSIVE processItems(_, _)
processItems(r, items) ==
  IF items = <<>> THEN r
  ELSE LET item == Head(items)
           key == KeyOf(r.keyFn, item)
           existing == key \in DOMAIN r.elementMap
           same == IF existing THEN isDeepEqual(item, r.elementMap[key].data) ELSE FALSE
           element == Node("item", r.renderCalls + 1)
           r1 == IF ~existing \/ ~same
                 THEN [r EXCEPT
                         !.renderCalls = @ + 1,
                         !.renders = Append(@, item),
                         !.children = IF existing
                                      THEN replaceChild(@, element, r.elementMap[key].element)
                                      ELSE Append(@, element),
                         !.elementMap = MapSet(@, key, [element |-> element, data |-> item])]
                 ELSE r
       IN  processItems(r1, Tail(items))

\* for (const [key, {element}] of elementMap.entries()): entries whose key
\* is not among the current keys are removed, and their elements with them
removeStale_keep(r, currentKeys) == r
removeStale(r, currentKeys) ==
  LET stale == {r.elementMap[k].element : k \in DOMAIN r.elementMap \ currentKeys}
  IN  [r EXCEPT !.children = SelectSeq(@, LAMBDA n : n \notin stale),
                !.elementMap = [k \in DOMAIN @ \cap currentKeys |-> @[k]]]

\* The observer callback of renderList, on the live state
listObserver(r) ==
  [removeStale(processItems(r, r.items), KeysOf(r.keyFn, r.items))
     EXCEPT !.lastItems = r.items]

\* A mutation of state.items through the proxy: items.push(item),
\* items.splice(i, 1), items[i].text = v, items.reverse()
ItemCalls(items) ==
  [kind : {"push"}, item : Items, i : {0}]
  \cup [kind : {"remove"}, item : {[id |-> 1, text |-> 0]}, i : DOMAIN items]
  \cup [kind : {"write"}, item : [id : {1}, text : Vals \cup {Null, Infinity}],
        i : DOMAIN items]
  \cup [kind : {"reverse"}, item : {[id |-> 1, text |-> 0]}, i : {0}]

ItemEffect(m, items) ==
  CASE m.kind = "push" ->
         mutatorWrapper([method |-> "push", x |-> m.item, s |-> 0, n |-> 0,
                         items |-> <<>>], items)
    [] m.kind = "remove" ->
         mutatorWrapper([method |-> "splice", x |-> 0, s |-> m.i - 1, n |-> 1,
                         items |-> <<>>], items)
    [] m.kind = "reverse" ->
         mutatorWrapper([method |-> "reverse", x |-> 0, s |-> 0, n |-> 0,
                         items |-> <<>>], items)
    [] m.kind = "write" ->
         [arr |-> IF setChanges(items[m.i].text, m.item.text)
                  THEN [items EXCEPT ![m.i].text = m.item.text] ELSE items,
          notify |-> setChanges(items[m.i].text, m.item.text)]

notList == <<orig, dep2, cmp, wh, rt, db, th, seen, eq>>

MutateItems(m) ==
  /\ variant = "deep" /\ TopLevelCall
  /\ Len(ItemEffect(m, rl.items).arr) <= MaxLen
  /\ rl' = [rl EXCEPT !.items = ItemEffect(m, rl.items).arr]
  /\ stack' = IF ItemEffect(m, rl.items).notify THEN notifyObservers(stack) ELSE stack
  /\ ev' = [kind |-> "items", call |-> m, old |-> rl.items]
  /\ nOps' = nOps + 1
  /\ UNCHANGED <<variant, target, currentValue, observers, hFresh, hUsed, calls,
                 regTime, gone, notList>>

\* renderList({state, getItems, itemRenderer, container, getItemKey}):
\* state.observe(callback), which runs the callback at once
CreateList(keyFn, children) ==
  /\ stack = <<>> /\ ~rl.made
  /\ LET r0 == [rl EXCEPT !.made = TRUE, !.keyFn = keyFn, !.children = children]
         r == observe(observers, UtilObs)
     IN /\ rl' = IF r.invoke THEN listObserver(r0) ELSE r0
        /\ observers' = r.set
        /\ calls' = IF r.invoke THEN [calls EXCEPT ![UtilObs] = @ + 1] ELSE calls
        /\ stack' = IF r.invoke THEN Append(stack, CbFrame(UtilObs, "observe")) ELSE stack
        /\ hFresh' = IF r.invoke THEN hFresh ELSE [hFresh EXCEPT ![UtilObs] = @ + 1]
  /\ regTime' = [regTime EXCEPT ![UtilObs] = NumObservers + nOps + 1]
  /\ ev' = [kind |-> "list", obs |-> UtilObs, val |-> Value]
  /\ UNCHANGED <<variant, target, currentValue, hUsed, nOps, gone, notList>>

\* The function renderList returned (the unsubscribe handle) is called
ListCleanup_keepObserver ==
  /\ rl.made /\ ~rl.cleaned /\ stack = <<>>
  /\ rl' = [rl EXCEPT !.cleaned = TRUE]
  /\ ev' = [kind |-> "unsubscribe", obs |-> UtilObs, val |-> Value]
  /\ UNCHANGED <<variant, target, currentValue, observers, stack, hFresh, hUsed,
                 nOps, calls, regTime, gone, notList>>
ListCleanup ==
  /\ rl.made /\ PlainCall(UtilObs)
  /\ Unsubscribe(UtilObs, rl.cleaned)
  /\ rl' = [rl EXCEPT !.cleaned = TRUE]
  /\ UNCHANGED notList

\* One iteration of forEach: when the observer invoked is the callback of
\* renderList, it runs
ListPassInvoke ==
  /\ PassInvoke
  /\ rl' = IF NextObs(Top) = UtilObs THEN listObserver(rl) ELSE rl
  /\ UNCHANGED notList

\* A program that renders state.items into a container once, mutates the
\* items at top level and calls the cleanup.
InitList ==
  /\ InitContainer /\ PlainObserversOnly
  /\ target = MkTarget(0, 0, 0, <<>>) /\ orig = target
  /\ dep2 = [val |-> 0, writes |-> 0] /\ cmp = NoComputed /\ wh = NoWhen
  /\ rt = NoRouter /\ db = NoDebounce /\ th = NoThrottle /\ seen = AllSeen /\ eq = NoCompare
  /\ \E items \in InitItems : rl = [NoList EXCEPT !.items = items]

NextList ==
  \/ \E keyFn \in {"id", "json"}, children \in {<<>>, <<Foreign>>} :
        CreateList(keyFn, children)
  \/ ListCleanup
  \/ \E m \in ItemCalls(rl.items) : MutateItems(m)
  \/ Alone(CallbackReturn)
  \/ ListPassInvoke
  \/ Alone(PassEnd)

SpecList == InitList /\ [][NextList]_vars

\* ------------------------------------------------------------ router
\* A query parameter value is a string, a number or a boolean; s is how
\* String(value) writes it.
QStr(s) == [t |-> "str", s |-> s]
QNum(s) == [t |-> "num", s |-> s]

\* The QueryParams objects the program passes, as their entries in property
\* order: {}, {a: 1}, {a: "1", b: "1"}, {b: "1", a: "1"}
QueryInputs ==
  {<<>>,
   <<[key |-> "a", value |-> QNum("1")]>>,
   <<[key |-> "a", value |-> QStr("1")], [key |-> "b", value |-> QStr("1")]>>,
   <<[key |-> "b", value |-> QStr("1")], [key |-> "a", value |-> QStr("1")]>>}

\* serializeQueryParams(params): the search string, as its key=value pairs
\* in order ("" is the empty sequence)
serializeQueryParams(params) ==
  [i \in DOMAIN params |-> [key |-> params[i].key, s |-> params[i].value.s]]

\* parseQueryParams(search): every value is a string
parseQueryParams(search) ==
  [i \in DOMAIN search |-> [key |-> search[i].key, value |-> QStr(search[i].s)]]

\* JSON.stringify(params) of a Record<string, string>: the entries in
\* property order
JSONstringify(params) ==
  [i \in DOMAIN params |-> <<params[i].key, params[i].value.s>>]

\* The route tables of the programs, as their paths in declaration order; the
\* factories of "/" and "/a" return a cleanup, the factory of "/b" returns
\* cleanup: null.
RouteTables == {<<>>, <<"/a", "/">>, <<"/b", "/a">>}
HasCleanup(route) == route \in {"/", "/a"}

\* The paths navigated to.  "constructor" is a property every object
\* inherits from Object.prototype; pushState resolves it to "/constructor".
NavPaths == {"/", "/a", "/b", "constructor"}
Inherited == {"constructor"}
Pathname(path) == IF path \in Inherited THEN "/constructor" ELSE path
Locations == [pathname : {Pathname(p) : p \in NavPaths},
              search : {serializeQueryParams(q) : q \in QueryInputs}]

\* routes[path] || routes["/"] || Object.values(routes)[0]
Own(routes, path) == \E i \in DOMAIN routes : routes[i] = path
routeFor_ownOnly(routes, path) ==
  IF Own(routes, path) THEN [kind |-> "own", route |-> path]
  ELSE IF path \in Inherited THEN [kind |-> "inherited", route |-> path]
  ELSE [kind |-> "none", route |-> path]
routeFor(routes, path) ==
  IF Own(routes, path) THEN [kind |-> "own", route |-> path]
  ELSE IF path \in Inherited THEN [kind |-> "inherited", route |-> path]
  ELSE IF Own(routes, "/") THEN [kind |-> "own", route |-> "/"]
  ELSE IF routes # <<>> THEN [kind |-> "own", route |-> routes[1]]
  ELSE [kind |-> "none", route |-> path]

\* notifyQueryObservers(params): queryObservers.forEach(observer(params))
notifyQueryObservers(r, params) ==
  [r EXCEPT !.notified = @ \o [i \in DOMAIN r.queryObservers |->
                                 [obs |-> r.queryObservers[i], params |-> params]],
            !.log = Append(@, "notify")]

\* renderRoute(path, shouldNotifyQueryObservers).  An inherited property
\* called as a factory returns no element, and appendChild(undefined) throws.
renderRoute_keepCleanup(r, path, shouldNotify) ==
  LET newQueryParams == parseQueryParams(r.loc.search)
      changed == JSONstringify(r.currentQueryParams) # JSONstringify(newQueryParams)
      r1 == IF ~changed THEN r
            ELSE IF shouldNotify
                 THEN notifyQueryObservers([r EXCEPT !.currentQueryParams = newQueryParams],
                                           newQueryParams)
                 ELSE [r EXCEPT !.currentQueryParams = newQueryParams]
      r2 == [r1 EXCEPT !.container = <<>>, !.log = Append(@, "clear")]
      r3 == IF r2.cleanup # 0
            THEN [r2 EXCEPT !.cleanupCalls[r2.cleanup] = @ + 1,
                            !.log = Append(@, "cleanup")]
            ELSE r2
      route == routeFor(r.routes, path)
  IN  CASE route.kind = "none" -> r3
        [] route.kind = "inherited" -> [r3 EXCEPT !.log = @ \o <<"factory", "throw">>]
        [] route.kind = "own" ->
             [r3 EXCEPT !.renders = @ + 1,
                        !.cleanupCalls = Append(@, 0),
                        !.container = <<[route |-> route.route, id |-> r3.renders + 1]>>,
                        !.cleanup = IF HasCleanup(route.route) THEN r3.renders + 1 ELSE @,
                        !.log = @ \o <<"factory", "mount">>]
renderRoute(r, path, shouldNotify) ==
  LET newQueryParams == parseQueryParams(r.loc.search)
      changed == JSONstringify(r.currentQueryParams) # JSONstringify(newQueryParams)
      r1 == IF ~changed THEN r
            ELSE IF shouldNotify
                 THEN notifyQueryObservers([r EXCEPT !.currentQueryParams = newQueryParams],
                                           newQueryParams)
                 ELSE [r EXCEPT !.currentQueryParams = newQueryParams]
      r2 == [r1 EXCEPT !.container = <<>>, !.log = Append(@, "clear")]
      r3 == IF r2.cleanup # 0
            THEN [r2 EXCEPT !.cleanupCalls[r2.cleanup] = @ + 1,
                            !.cleanup = 0,
                            !.log = Append(@, "cleanup")]
            ELSE r2
      route == routeFor(r.routes, path)
  IN  CASE route.kind = "none" -> r3
        [] route.kind = "inherited" -> [r3 EXCEPT !.log = @ \o <<"factory", "throw">>]
        [] route.kind = "own" ->
             [r3 EXCEPT !.renders = @ + 1,
                        !.cleanupCalls = Append(@, 0),
                        !.container = <<[route |-> route.route, id |-> r3.renders + 1]>>,
                        !.cleanup = IF HasCleanup(route.route) THEN r3.renders + 1 ELSE 0,
                        !.log = @ \o <<"factory", "mount">>]

\* The router at the start of a call or event: the records of the last one
\* are dropped
Begin(r, last) ==
  [r EXCEPT !.ops = @ + 1, !.last = last, !.log = <<>>, !.notified = <<>>]

\* navigate(path, queryParams): pushState, then renderRoute(path, true)
navigate(r, path, queryParams) ==
  renderRoute([r EXCEPT !.loc = [pathname |-> Pathname(path),
                                 search |-> serializeQueryParams(queryParams)]],
              path, TRUE)

\* updateQueryParams(params): pushState on the current path, then the cache
\* is set and the observers notified
updateQueryParams_rerender(r, params) ==
  renderRoute([r EXCEPT !.loc.search = serializeQueryParams(params)],
              r.loc.pathname, TRUE)
updateQueryParams(r, params) ==
  LET r1 == [r EXCEPT !.loc.search = serializeQueryParams(params)]
      r2 == [r1 EXCEPT !.currentQueryParams = parseQueryParams(r1.loc.search)]
  IN  notifyQueryObservers(r2, r2.currentQueryParams)

\* observeQueryParams(observer): queryObservers.add(observer); observer(currentQueryParams)
observeQueryParams_lazy(r, o) ==
  [r EXCEPT !.queryObservers = SetAdd(@, o),
            !.handed = @ \cup {o},
            !.unsubscribed = @ \ {o}]
observeQueryParams(r, o) ==
  [r EXCEPT !.queryObservers = SetAdd(@, o),
            !.notified = Append(@, [obs |-> o, params |-> r.currentQueryParams]),
            !.handed = @ \cup {o},
            !.unsubscribed = @ \ {o}]

notRouter == <<cvars, orig, dep2, cmp, wh, rl, db, th, seen, eq>>
RouterCall == rt.made /\ rt.ops < MaxRouterOps

\* router(routes): the cache is parsed from the location, the popstate
\* listener added, and renderRoute(window.location.pathname, false) called
CreateRouter(routes) ==
  /\ ~rt.made
  /\ rt' = renderRoute([rt EXCEPT !.made = TRUE, !.routes = routes,
                                  !.currentQueryParams = parseQueryParams(rt.loc.search),
                                  !.last = [kind |-> "create"],
                                  !.log = <<>>, !.notified = <<>>],
                       rt.loc.pathname, FALSE)
  /\ UNCHANGED notRouter

Navigate(path, queryParams) ==
  /\ RouterCall
  /\ rt' = navigate(Begin(rt, [kind |-> "navigate", path |-> path,
                               params |-> queryParams]), path, queryParams)
  /\ UNCHANGED notRouter

\* The user goes back or forward in the history: the location changes, then
\* the popstate listener calls renderRoute(window.location.pathname, true)
Popstate(loc) ==
  /\ RouterCall
  /\ rt' = renderRoute([Begin(rt, [kind |-> "popstate", path |-> loc.pathname])
                          EXCEPT !.loc = loc],
                       loc.pathname, TRUE)
  /\ UNCHANGED notRouter

UpdateQueryParams(params) ==
  /\ RouterCall
  /\ rt' = updateQueryParams(Begin(rt, [kind |-> "updateQueryParams",
                                        params |-> params]), params)
  /\ UNCHANGED notRouter

ObserveQueryParams(o) ==
  /\ RouterCall
  /\ rt' = observeQueryParams(Begin(rt, [kind |-> "observeQueryParams", obs |-> o]), o)
  /\ UNCHANGED notRouter

\* The function observeQueryParams returned is called
QueryUnsubscribe(o) ==
  /\ RouterCall /\ o \in rt.handed
  /\ rt' = [Begin(rt, [kind |-> "unsubscribe", obs |-> o])
              EXCEPT !.queryObservers = SetDelete(@, o),
                     !.unsubscribed = @ \cup {o}]
  /\ UNCHANGED notRouter

\* The program stores the router where link() looks for it:
\* window.__urwaldRouter = theRouter
SetGlobal ==
  /\ rt.made /\ ~rt.global
  /\ rt' = [rt EXCEPT !.global = TRUE, !.last = [kind |-> "setGlobal"],
                      !.log = <<>>, !.notified = <<>>]
  /\ UNCHANGED notRouter

\* A click on the element link({text, path, options}) returned: with a
\* router in window.__urwaldRouter, navigate(path); without, a warning and
\* window.location.href = path, which loads the page anew
ClickLink(path) ==
  /\ rt.ops < MaxRouterOps
  /\ rt' = IF rt.global
           THEN navigate(Begin(rt, [kind |-> "click", path |-> path,
                                    navigated |-> TRUE, created |-> rt.made]),
                         path, <<>>)
           ELSE [NoRouter EXCEPT !.loc = [pathname |-> Pathname(path), search |-> <<>>],
                                 !.ops = rt.ops + 1,
                                 !.last = [kind |-> "click", path |-> path,
                                           navigated |-> FALSE, created |-> rt.made]]
  /\ UNCHANGED notRouter

\* A program that creates one router on a page at some location and uses it
InitRouter ==
  /\ InitContainer /\ orig = target
  /\ variant = "deep" /\ target = MkTarget(0, 0, 0, <<>>) /\ observers = <<>>
  /\ \A o \in ObsIds : ~hUsed[o]
  /\ dep2 = [val |-> 0, writes |-> 0] /\ cmp = NoComputed /\ wh = NoWhen
  /\ rl = NoList /\ db = NoDebounce /\ th = NoThrottle /\ seen = AllSeen /\ eq = NoCompare
  /\ \E loc \in Locations : rt = [NoRouter EXCEPT !.loc = loc]

NextRouter ==
  \/ \E routes \in RouteTables : CreateRouter(routes)
  \/ \E path \in NavPaths, q \in QueryInputs : Navigate(path, q)
  \/ \E loc \in Locations : Popstate(loc)
  \/ \E q \in QueryInputs : UpdateQueryParams(q)
  \/ \E o \in ObsIds : ObserveQueryParams(o)
  \/ \E o \in ObsIds : QueryUnsubscribe(o)
  \/ SetGlobal
  \/ \E path \in NavPaths : ClickLink(path)

SpecRouter == InitRouter /\ [][NextRouter]_vars

\* ------------------------------------------------------------ debounce
\* wait, in clock ticks, and the function wrapped: func(x) returns x + 1
Wait == 2
Func(x) == x + 1

\* func(...lastArgs) called at this moment; result = its value
callFunc(d, by) ==
  [d EXCEPT !.funcCalls = Append(@, [at |-> d.now, args |-> d.lastArgs[1],
                                     by |-> by, call |-> d.calls]),
            !.result = <<Func(d.lastArgs[1])>>]

\* debounced(...args): clearTimeout(timeoutId) if there is one; lastArgs =
\* args; timeoutId = setTimeout(..., wait)
debounced_noReset(d, v) ==
  [d EXCEPT !.lastArgs = <<v>>,
            !.timers = @ + 1,
            !.timeoutId = d.timers + 1,
            !.pending = TRUE,
            !.due = IF d.pending THEN @ ELSE d.now + Wait,
            !.calls = @ + 1,
            !.lastCallAt = d.now]
debounced(d, v) ==
  [d EXCEPT !.lastArgs = <<v>>,
            !.timers = @ + 1,
            !.timeoutId = d.timers + 1,
            !.pending = TRUE,
            !.due = d.now + Wait,
            !.calls = @ + 1,
            !.lastCallAt = d.now]

\* The callback given to setTimeout: if (lastArgs) result = func(...lastArgs)
timerCallback(d) ==
  LET d1 == [d EXCEPT !.pending = FALSE]
  IN  IF d1.lastArgs # <<>> THEN callFunc(d1, "timer") ELSE d1

\* debounced.cancel(): clearTimeout(timeoutId); timeoutId = undefined
cancel_keepTimer(d) ==
  IF d.timeoutId # 0 THEN [d EXCEPT !.timeoutId = 0] ELSE d
cancel(d) ==
  IF d.timeoutId # 0 THEN [d EXCEPT !.pending = FALSE, !.timeoutId = 0] ELSE d

\* debounced.flush(): cancel(); if (lastArgs) result = func(...lastArgs);
\* return result
flush_keepTimer(d) ==
  IF d.lastArgs # <<>> THEN callFunc(d, "flush") ELSE d
flush(d) ==
  LET d1 == cancel(d)
  IN  IF d1.lastArgs # <<>> THEN callFunc(d1, "flush") ELSE d1

notDebounce == <<cvars, orig, dep2, cmp, wh, rl, rt, th, seen, eq>>
DebounceCall == db.made /\ db.ops < MaxTimerOps

\* debounce(func, wait)
CreateDebounce ==
  /\ ~db.made
  /\ db' = [db EXCEPT !.made = TRUE, !.last = [kind |-> "create"]]
  /\ UNCHANGED notDebounce

DebouncedCall(v) ==
  /\ DebounceCall
  /\ db' = [debounced(db, v) EXCEPT !.ops = @ + 1, !.cancelled = FALSE,
                                    !.last = [kind |-> "call", args |-> v]]
  /\ UNCHANGED notDebounce

DebounceCancel ==
  /\ DebounceCall
  /\ db' = [cancel(db) EXCEPT !.ops = @ + 1, !.cancelled = TRUE,
                            !.last = [kind |-> "cancel"]]
  /\ UNCHANGED notDebounce

DebounceFlush ==
  /\ DebounceCall
  /\ db' = [flush(db) EXCEPT !.ops = @ + 1,
                             !.last = [kind |-> "flush", returned |-> flush(db).result]]
  /\ UNCHANGED notDebounce

\* The clock advances; a timer that is due runs before it is MaxLate late
DebounceTick ==
  /\ db.now < MaxTime
  /\ db.pending => db.now < db.due + MaxLate
  /\ db' = [db EXCEPT !.now = @ + 1, !.last = [kind |-> "tick"]]
  /\ UNCHANGED notDebounce

\* The event loop runs the timer, at or after the time it is due
DebounceTimer ==
  /\ db.pending /\ db.now >= db.due
  /\ db' = [timerCallback(db) EXCEPT !.last = [kind |-> "timer"]]
  /\ UNCHANGED notDebounce

\* A program that creates one debounced function and uses it
InitDebounce ==
  /\ InitContainer /\ orig = target
  /\ variant = "deep" /\ target = MkTarget(0, 0, 0, <<>>) /\ observers = <<>>
  /\ \A o \in ObsIds : ~hUsed[o]
  /\ dep2 = [val |-> 0, writes |-> 0] /\ cmp = NoComputed /\ wh = NoWhen
  /\ rl = NoList /\ rt = NoRouter /\ db = NoDebounce /\ th = NoThrottle /\ seen = AllSeen /\ eq = NoCompare

NextDebounce ==
  \/ CreateDebounce
  \/ \E v \in Vals : DebouncedCall(v)
  \/ DebounceCancel
  \/ DebounceFlush
  \/ DebounceTick
  \/ DebounceTimer

SpecDebounce == InitDebounce /\ [][NextDebounce]_vars

\* ------------------------------------------------------------ throttle
\* throttled(...args): called for the first time, or wait or more after the
\* last execution, it executes func at once; otherwise it keeps the
\* arguments and, if no timer is set, sets one for the rest of the wait
throttled_fullWait(t, v) ==
  IF t.lastCallTime = <<>> \/ (t.lastCallTime # <<>> /\ t.now - t.lastCallTime[1] >= Wait)
  THEN [t EXCEPT !.lastCallTime = <<t.now>>,
                 !.funcCalls = Append(@, [at |-> t.now, args |-> v, by |-> "call",
                                          call |-> t.calls + 1]),
                 !.result = <<Func(v)>>,
                 !.calls = @ + 1]
  ELSE IF t.timeoutId = 0
       THEN [t EXCEPT !.lastArgs = <<v>>, !.calls = @ + 1,
                      !.timers = @ + 1, !.timeoutId = t.timers + 1,
                      !.pending = TRUE,
                      !.due = t.now + Wait]
       ELSE [t EXCEPT !.lastArgs = <<v>>, !.calls = @ + 1]
throttled(t, v) ==
  IF t.lastCallTime = <<>> \/ (t.lastCallTime # <<>> /\ t.now - t.lastCallTime[1] >= Wait)
  THEN [t EXCEPT !.lastCallTime = <<t.now>>,
                 !.funcCalls = Append(@, [at |-> t.now, args |-> v, by |-> "call",
                                          call |-> t.calls + 1]),
                 !.result = <<Func(v)>>,
                 !.calls = @ + 1]
  ELSE IF t.timeoutId = 0
       THEN [t EXCEPT !.lastArgs = <<v>>, !.calls = @ + 1,
                      !.timers = @ + 1, !.timeoutId = t.timers + 1,
                      !.pending = TRUE,
                      !.due = t.now + (Wait - (t.now - t.lastCallTime[1]))]
       ELSE [t EXCEPT !.lastArgs = <<v>>, !.calls = @ + 1]

\* The callback given to setTimeout: if (lastArgs) { lastCallTime =
\* Date.now(); result = func(...lastArgs); lastArgs = undefined };
\* timeoutId = undefined
throttleTimer(t) ==
  LET t1 == [t EXCEPT !.pending = FALSE, !.timeoutId = 0]
  IN  IF t.lastArgs # <<>>
      THEN [t1 EXCEPT !.lastCallTime = <<t.now>>,
                      !.funcCalls = Append(@, [at |-> t.now, args |-> t.lastArgs[1],
                                               by |-> "timer", call |-> t.calls]),
                      !.result = <<Func(t.lastArgs[1])>>,
                      !.lastArgs = <<>>]
      ELSE t1

\* throttled.cancel(): clearTimeout(timeoutId); timeoutId = undefined
throttleCancel(t) ==
  IF t.timeoutId # 0 THEN [t EXCEPT !.pending = FALSE, !.timeoutId = 0] ELSE t

notThrottle == <<cvars, orig, dep2, cmp, wh, rl, rt, db, seen, eq>>
ThrottleCall == th.made /\ th.ops < MaxTimerOps

\* throttle(func, wait)
CreateThrottle ==
  /\ ~th.made
  /\ th' = [th EXCEPT !.made = TRUE, !.last = [kind |-> "create"]]
  /\ UNCHANGED notThrottle

ThrottledCall(v) ==
  /\ ThrottleCall
  /\ th' = [throttled(th, v) EXCEPT
              !.ops = @ + 1, !.cancelled = FALSE,
              !.held = IF throttled(th, v).funcCalls = th.funcCalls
                       THEN Append(@, v) ELSE @,
              !.last = [kind |-> "call", args |-> v]]
  /\ UNCHANGED notThrottle

ThrottleCancel ==
  /\ ThrottleCall
  /\ th' = [throttleCancel(th) EXCEPT !.ops = @ + 1, !.cancelled = TRUE,
                                      !.last = [kind |-> "cancel"]]
  /\ UNCHANGED notThrottle

\* The clock advances; a timer that is due runs before it is MaxLate late
ThrottleTick ==
  /\ th.now < MaxTime
  /\ th.pending => th.now < th.due + MaxLate
  /\ th' = [th EXCEPT !.now = @ + 1, !.last = [kind |-> "tick"]]
  /\ UNCHANGED notThrottle

\* The event loop runs the timer, at or after the time it is due
ThrottleTimer ==
  /\ th.pending /\ th.now >= th.due
  /\ th' = [throttleTimer(th) EXCEPT !.held = <<>>, !.last = [kind |-> "timer"]]
  /\ UNCHANGED notThrottle

NextThrottle ==
  \/ CreateThrottle
  \/ \E v \in Vals : ThrottledCall(v)
  \/ ThrottleCancel
  \/ ThrottleTick
  \/ ThrottleTimer

\* A program that creates one throttled function and uses it
SpecThrottle == InitDebounce /\ [][NextThrottle]_vars

\* A program that creates one wrapper, debounced or throttled, and uses it
NextTimers ==
  \/ ~th.made /\ CreateDebounce
  \/ \E v \in Vals : DebouncedCall(v)
  \/ DebounceCancel
  \/ DebounceFlush
  \/ DebounceTick
  \/ DebounceTimer
  \/ ~db.made /\ CreateThrottle
  \/ \E v \in Vals : ThrottledCall(v)
  \/ ThrottleCancel
  \/ ThrottleTick
  \/ ThrottleTimer

SpecTimers == InitDebounce /\ [][NextTimers]_vars

\* ------------------------------------------------------------ isDeepEqual
Keys == {"x", "y"}
Obj(props) == [t |-> "obj", props |-> props]
Primitives == {Num(n) : n \in Vals} \cup {NaN, NullValue}
\* objects of primitives, and objects that hold such an object under x
Objects1 == {Obj(p) : p \in [Keys -> Primitives \cup {Missing}]}
Objects2 ==
  {Obj(p) : p \in {q \in [Keys -> Primitives \cup {Missing} \cup Objects1] :
                     q.x \in Objects1 /\ q.y \notin Objects1}}
Values == Primitives \cup Objects1 \cup Objects2

\* Object.keys(a)
ObjectKeys(a) == {k \in Keys : a.props[k] # Missing}

\* a === b: numbers and null by value, NaN never, objects by reference
\* (same: a and b are one object)
StrictEquals(a, b, same) ==
  IF a.t = "obj" /\ b.t = "obj" THEN same ELSE a = b /\ a.t # "nan"

\* isDeepEqual(a, b); the objects held by two different objects are
\* different objects
RECURSIVE isDeepEqualOf(_, _, _)
isDeepEqualOf(a, b, same) ==
  IF StrictEquals(a, b, same) THEN TRUE
  ELSE IF a.t # "obj" \/ b.t # "obj" THEN FALSE
  ELSE IF Cardinality(ObjectKeys(a)) # Cardinality(ObjectKeys(b)) THEN FALSE
  ELSE \A key \in ObjectKeys(a) :
          /\ key \in ObjectKeys(b)
          /\ isDeepEqualOf(a.props[key], b.props[key], FALSE)

notEqual == <<cvars, orig, dep2, cmp, wh, rl, rt, db, th, seen>>

\* One call isDeepEqual(a, b)
Compare ==
  /\ ~eq.done
  /\ eq' = [eq EXCEPT !.out = isDeepEqualOf(eq.a, eq.b, eq.same), !.done = TRUE]
  /\ UNCHANGED notEqual

\* The two arguments of the call: any two values; two objects with the
\* same content may be one object
InitEqual ==
  /\ InitContainer /\ orig = target
  /\ variant = "deep" /\ target = MkTarget(0, 0, 0, <<>>) /\ observers = <<>>
  /\ \A o \in ObsIds : ~hUsed[o]
  /\ dep2 = [val |-> 0, writes |-> 0] /\ cmp = NoComputed /\ wh = NoWhen
  /\ rl = NoList /\ rt = NoRouter /\ db = NoDebounce /\ th = NoThrottle /\ seen = AllSeen
  /\ \E a, b \in Values, same \in BOOLEAN :
        /\ same => (a = b /\ a.t = "obj")
        /\ eq = [a |-> a, b |-> b, same |-> same, out |-> FALSE, done |-> FALSE]

NextEqual == Compare

SpecEqual == InitEqual /\ [][NextEqual]_vars

\* ------------------------------------------------------------ properties
PassFrames == {i \in DOMAIN stack : stack[i].kind = "pass"}
Exhausted == IF AtTop("pass") THEN NextObs(Top) = NoObs ELSE FALSE
TopOf(stk) == stk[Len(stk)]

\* C1: an observe(cb) call puts cb in the observer Set and invokes cb, and
\* no other observer, exactly once with the current value, before observe
\* returns (its unsubscribe handle is handed out only when cb has returned).
C1_ReplayOnSubscribe ==
  [][ev'.kind = "observe" =>
       LET o == ev'.obs IN
         /\ SetHas(observers', o)
         /\ calls' = [calls EXCEPT ![o] = @ + 1]
         /\ ev'.val = Value /\ Value' = Value
         /\ Len(stack') = Len(stack) + 1
         /\ TopOf(stack') = CbFrame(o, "observe")
         /\ hFresh' = hFresh]_vars

\* C1 witness: observe of an observer already in the Set, called from inside
\* the callback of another observer, has just replayed it and nobody else
C1_Witness ==
  /\ ev.kind = "observe"
  /\ Len(stack) = 2
  /\ Len(observers) = 2
  /\ regTime[ev.obs] <= NumObservers
  /\ calls[ev.obs] = 1
  /\ stack[1].kind = "cb" /\ stack[1].obs # ev.obs
  /\ calls[stack[1].obs] = 1

\* C2 (as amended): a `value =` assignment of the simple variant triggers
\* exactly one notification pass whatever the value; a property write
\* through state.state triggers exactly one pass when the value assigned
\* is not strictly equal to the stored one, and none when it is.
C2_AssignmentNotifies ==
  [][/\ ev'.kind \in {"setValue", "assignList"} =>
          NumPass(stack') = NumPass(stack) + 1
     /\ ev'.kind = "write" =>
          NumPass(stack') = NumPass(stack) + (IF ev'.old # ev'.val THEN 1 ELSE 0)]_vars

\* C2 as stated: every assignment triggers exactly one pass, also when the
\* value assigned is strictly equal to the stored one
C2_Original ==
  [][ev'.kind \in {"setValue", "assignList", "write"} =>
       NumPass(stack') = NumPass(stack) + 1]_vars

\* C2 witness: `value = v` with v already stored has started a pass
C2_Witness ==
  /\ ev.kind = "setValue"
  /\ ev.old = ev.val
  /\ currentValue = ev.val
  /\ NumPass(stack) = 1
  /\ observers # <<>>

\* C3: one write of a different value to a property at any depth of the
\* state object triggers exactly one notification pass, and reading the
\* property through state.state then gives the value written.
C3_DeepReactivity ==
  [][(ev'.kind = "write" /\ ev'.old # ev'.val) =>
       /\ NumPass(stack') = NumPass(stack) + 1
       /\ TopOf(stack').kind = "pass"
       /\ GetPath(target', ev'.path) = ev'.val]_vars

\* C3 witness: a write at depth 3 changed the value and started a pass
C3_Witness ==
  /\ ev.kind = "write"
  /\ Len(ev.path) = 3
  /\ ev.old # ev.val
  /\ GetPath(target, ev.path) = ev.val
  /\ AtTop("pass")
  /\ observers # <<>>

\* C4: a notification pass never invokes an observer whose unsubscribe
\* handle has been called since it was last registered - also not the pass
\* that was running when the handle was called.
C4_NoCallAfterUnsubscribe ==
  [][ev'.kind = "notify" => ev'.obs \notin gone]_vars

\* C4 witness: a pass has ended that never invoked an observer registered
\* when it began and unsubscribed, by another observer, while it ran
C4_Witness ==
  /\ Exhausted
  /\ \E o \in Top.removed \cap SetElems(Top.snap) :
        /\ Top.cnt[o] = 0
        /\ o \in gone
        /\ \E p \in ObsIds : p # o /\ Top.cnt[p] = 1

\* Every pass in progress satisfies P
EachPass(P(_)) == \A i \in PassFrames : P(stack[i])

\* The pass on top of the stack has ended and satisfies P
EndedPass(P(_)) == Exhausted => P(Top)

\* C5 (as amended): an observer is invoked exactly once at its
\* registration; a pass invokes at most once every observer that is not
\* unsubscribed while it runs, and when it ends it has invoked exactly once
\* every observer that was registered when it began and not unsubscribed
\* while it ran.
C5_OncePerPass ==
  /\ ev.kind = "observe" => calls = [ev.calls0 EXCEPT ![ev.obs] = @ + 1]
  /\ EachPass(LAMBDA f : \A o \in ObsIds \ f.removed : f.cnt[o] <= 1)
  /\ EndedPass(LAMBDA f : \A o \in SetElems(f.snap) \ f.removed : f.cnt[o] = 1)

\* C5 as stated: moreover a pass invokes no observer twice, and none that
\* was not registered when the mutation was committed
C5_Original ==
  /\ ev.kind = "observe" => calls = [ev.calls0 EXCEPT ![ev.obs] = @ + 1]
  /\ EachPass(LAMBDA f : \A o \in ObsIds :
                 f.cnt[o] <= 1 /\ (f.cnt[o] >= 1 => o \in SetElems(f.snap)))
  /\ EndedPass(LAMBDA f : \A o \in SetElems(f.snap) \ f.removed : f.cnt[o] = 1)

\* C5 witness: a pass ends that invoked, once each, an observer registered
\* when it began and one that a callback registered while it ran
C5_Witness ==
  /\ Exhausted
  /\ \E o \in SetElems(Top.snap) : Top.cnt[o] = 1
  /\ \E o \in ObsIds \ SetElems(Top.snap) : Top.cnt[o] = 1

\* C6: a pass invokes the observers in the order in which they were put in
\* the Set; an observer unsubscribed and registered again comes where its
\* latest registration puts it.
C6_RegistrationOrder ==
  \A i \in PassFrames : stack[i].ordered

\* C6 witness: a pass has invoked observer 2 and then observer 1, which had
\* been unsubscribed and was registered again after 2
C6_Witness ==
  /\ Exhausted
  /\ Top.n = 2
  /\ observers = <<2, 1>>
  /\ hUsed[1]
  /\ regTime[1] > NumObservers
  /\ regTime[2] <= NumObservers

\* C7 (as amended): update(fn) triggers one pass per mutation fn makes that
\* changes something (a property write of a value not strictly equal to the
\* stored one, an array mutator call), each before fn's next mutation, and
\* no pass of its own; every registered observer has then been invoked once
\* per such mutation.
C7_UpdatePasses ==
  /\ \A i \in DOMAIN stack :
       stack[i].kind = "update" => stack[i].passes = stack[i].effective
  /\ ev.kind = "updateReturn" =>
       /\ ev.passes = ev.effective
       /\ ev.quiet =>
            \A o \in SetElems(observers) : calls[o] = ev.calls0[o] + ev.effective

\* C7 as stated: one pass per intercepted write
C7_Original ==
  ev.kind = "updateReturn" => ev.passes = ev.writes

\* C7 witness: state({count: 0}); observe(cb); update(s => { s.count++ })
\* has returned: cb was called twice and count is 1
C7_Witness ==
  /\ ev.kind = "updateReturn"
  /\ ev.writes = 1 /\ ev.passes = 1
  /\ target.count = 1
  /\ nOps = 2
  /\ observers = <<1>>
  /\ calls[1] = 2

\* C8: when update(fn) returns, the value of the container is the value fn
\* returned.
C8_UpdateAppliesReturn ==
  /\ ev.kind = "updateReturn" => target = ev.ret.obj
  /\ ev.kind = "updateSimple" => currentValue = ev.ret

\* C9: a call of push, pop, shift, unshift, splice, sort, reverse or fill on
\* state.list changes the array as the method specifies, changes nothing
\* else, and triggers exactly one notification pass, begun with the array
\* already changed.
Occurrences(arr, v) == Cardinality({i \in DOMAIN arr : arr[i] = v})

MethodPost(c, a, b) ==
  CASE c.method = "push" ->
         /\ Len(b) = Len(a) + 1 /\ b[Len(b)] = c.x
         /\ \A i \in DOMAIN a : b[i] = a[i]
    [] c.method = "pop" ->
         /\ Len(b) = Max(Len(a) - 1, 0)
         /\ \A i \in DOMAIN b : b[i] = a[i]
    [] c.method = "shift" ->
         /\ Len(b) = Max(Len(a) - 1, 0)
         /\ \A i \in DOMAIN b : b[i] = a[i + 1]
    [] c.method = "unshift" ->
         /\ Len(b) = Len(a) + 1 /\ b[1] = c.x
         /\ \A i \in DOMAIN a : b[i + 1] = a[i]
    [] c.method = "reverse" ->
         /\ Len(b) = Len(a)
         /\ \A i \in DOMAIN a : b[Len(a) + 1 - i] = a[i]
    [] c.method = "sort" ->
         /\ Len(b) = Len(a)
         /\ \A v \in Vals : Occurrences(b, v) = Occurrences(a, v)
         /\ \A i, j \in DOMAIN b : i < j => ~StrLess(Digits(b[j]), Digits(b[i]))
    [] c.method = "fill" ->
         /\ Len(b) = Len(a)
         /\ \A i \in DOMAIN a :
              b[i] = IF c.s < i /\ i <= c.n THEN c.x ELSE a[i]
    [] c.method = "splice" ->
         LET from == Min(c.s, Len(a))
             del == Min(c.n, Len(a) - from)
         IN /\ Len(b) = Len(a) - del + Len(c.items)
            /\ \A i \in 1..from : b[i] = a[i]
            /\ \A i \in 1..Len(c.items) : b[from + i] = c.items[i]
            /\ \A i \in (from + del + 1)..Len(a) :
                 b[i - del + Len(c.items)] = a[i]

C9_ArrayMutators ==
  [][ev'.kind = "array" =>
       /\ MethodPost(ev'.call, target.list, target'.list)
       /\ target' = [target EXCEPT !.list = target'.list]
       /\ NumPass(stack') = NumPass(stack) + 1
       /\ TopOf(stack').kind = "pass"]_vars

\* C9 witness: state.list.sort() on [1, 0] reordered two indices and
\* started one pass
C9_Witness ==
  /\ ev.kind = "array"
  /\ ev.call.method = "sort"
  /\ ev.old = <<1, 0>>
  /\ target.list = <<0, 1>>
  /\ NumPass(stack) = 1
  /\ observers # <<>>

\* C10: calling an unsubscribe handle that has been called before leaves
\* the observer Set as it is.
C10_RepeatedUnsubscribeNoOp ==
  [][(ev'.kind = "unsubscribe" /\ ev'.repeat) => observers' = observers]_vars

\* C11: a mutation of the object that was passed to state() changes nothing
\* that is read through the container and invokes no observer, and a
\* mutation through the container changes nothing in the caller's object.
C11_DefensiveCopy ==
  [][/\ ev'.kind \in {"mutateOriginal", "mutateOriginalList"} =>
          /\ target' = target
          /\ stack' = stack
          /\ calls' = calls
     /\ ev'.kind \in {"write", "array"} => orig' = orig]_vars

\* C11 witness: the container wrote count, the caller then wrote the nested
\* profile.age of its own object, and each side kept its own values
C11_Witness ==
  /\ ev.kind = "mutateOriginal"
  /\ ev.path = <<"profile", "age">>
  /\ orig.profile.age = 1 /\ target.profile.age = 0
  /\ orig.count = 0 /\ target.count = 1
  /\ observers # <<>>
  /\ stack = <<>>

\* C12: as long as no dependency has changed since computed() created the
\* value, getter has been called exactly once, however often invoke() was
\* called.
C12_GetterOnceUntilChange ==
  (cmp.made /\ ~cmp.changed) => cmp.getterCalls = 1

\* C13: a run of the dependency callback never calls getter; an invoke()
\* calls getter exactly once when the callback ran at least once since the
\* previous invoke(), and not at all otherwise.
C13_LazyCoalescing ==
  [][/\ (ev'.kind = "invoke" /\ ev'.again) =>
          cmp'.getterCalls = cmp.getterCalls + (IF cmp.notes >= 1 THEN 1 ELSE 0)
     /\ (cmp.made /\ ev'.kind # "invoke") => cmp'.getterCalls = cmp.getterCalls]_vars

\* C13 witness: between two invoke() calls D1 and D2 both changed; the
\* second invoke() made the one getter call
C13_Witness ==
  /\ ev.kind = "invoke" /\ ev.again
  /\ ev.notes = 2
  /\ cmp.getterCalls = ev.calls0 + 1
  /\ dep2.val = 1 /\ target.count = 1
  /\ cmp.cachedValue = <<1, 0, 1>>

\* C14: an invoke() made at top level (no mutating call is in progress)
\* returns what getter() returns on the current values of D1 and D2.
C14_InvokeCurrent ==
  (ev.kind = "invoke" /\ ev.top) => ev.got = Getter

\* C14 witness: invoke(), an array push on D1 and a write to D2, invoke()
C14_Witness ==
  /\ ev.kind = "invoke" /\ ev.top /\ ev.again
  /\ ev.got = <<0, 1, 1>>
  /\ ev.notes >= 2

\* The branch condition(state) selects, and: the controller's nodes in the
\* container are exactly the node of that branch
WhenExpected == IF Condition THEN "render" ELSE IF wh.hasElse THEN "else" ELSE "none"
WhenSynced ==
  IF WhenExpected = "none"
  THEN OwnNodes(wh.children) = {} /\ wh.currentElement = None
  ELSE /\ OwnNodes(wh.children) = {wh.currentElement}
       /\ wh.currentElement.branch = WhenExpected
WhenNotified == ev.kind = "notify" /\ ev.obs = UtilObs

\* C15: while the conditional is not cleaned up, the container never holds
\* two of its nodes; right after when() has run, after each run of its
\* callback, when a pass has ended and whenever no call is in progress, the
\* container holds exactly the node of the branch that condition selects on
\* the current state (none when the condition is false and there is no else).
C15_WhenMountsSelectedBranch ==
  (wh.made /\ ~wh.cleaned) =>
    /\ Cardinality({i \in DOMAIN wh.children :
                      wh.children[i].branch \in {"render", "else"}}) <= 1
    /\ (ev.kind \in {"when", "passEnd"} \/ WhenNotified \/ stack = <<>>) => WhenSynced

\* C15 witness: created with an else branch on a false condition, then the
\* state turned true: the else node is gone and the render node is mounted
\* after the container's other child
C15_Witness ==
  /\ wh.made /\ ~wh.cleaned /\ wh.hasElse
  /\ stack = <<>>
  /\ Condition
  /\ wh.elseCalls = 1 /\ wh.renderCalls = 1
  /\ wh.children = <<Foreign, Node("render", 2)>>

\* C16: a run of the callback of when on a state for which condition gives
\* the recorded boolean changes nothing of the controller or the container
\* (no render or else call, no DOM operation, same node); when() itself,
\* its replay included, makes at most one render or else call and one append.
C16_WhenIdempotent ==
  [][/\ (ev'.kind = "notify" /\ ev'.obs = UtilObs /\ Condition = wh.currentCondition) =>
          wh' = wh
     /\ ev'.kind = "when" =>
          LET k == IF Condition \/ wh'.hasElse THEN 1 ELSE 0
          IN /\ wh'.renderCalls + wh'.elseCalls = k
             /\ wh'.domOps = k]_vars

\* C16 witness: the callback has just run for a write of another property
\* that left the condition true; the node rendered by when() is still the
\* one mounted
C16_Witness ==
  /\ WhenNotified
  /\ ev.val.profile.age = 1
  /\ Condition /\ wh.currentCondition
  /\ wh.renderCalls = 1 /\ wh.elseCalls = 0 /\ wh.domOps = 1
  /\ wh.children = <<Node("render", 1)>>

\* C17: without an else branch, a run of the callback that finds the
\* condition turned true appends the render node and does nothing else (no
\* removal is attempted, nothing throws), and a run that finds it turned
\* false removes the mounted node and leaves none of the controller's nodes.
C17_WhenWithoutElse ==
  [][(ev'.kind = "notify" /\ ev'.obs = UtilObs /\ ~wh.hasElse
        /\ Condition # wh.currentCondition) =>
       /\ ~wh'.threw
       /\ wh'.domOps = wh.domOps + 1
       /\ IF Condition
          THEN /\ wh.currentElement = None
               /\ wh'.currentElement.branch = "render"
               /\ wh'.children = Append(wh.children, wh'.currentElement)
          ELSE /\ wh'.currentElement = None
               /\ OwnNodes(wh'.children) = {}
               /\ wh'.children = SelectSeq(wh.children, LAMBDA n : n # wh.currentElement)]_vars

\* C17 witness: no else branch; the condition was false at creation, turned
\* true and turned false again: one render call, one append, one removal
C17_Witness ==
  /\ WhenNotified
  /\ ~wh.hasElse /\ ~Condition
  /\ wh.renderCalls = 1 /\ wh.domOps = 2
  /\ wh.currentElement = None
  /\ wh.children = <<Foreign>>

\* C18: the cleanup takes the callback of when out of the observer Set and
\* removes the mounted node from the container if it is in it; once cleanup
\* has been called, no step - a state mutation and its pass, or another
\* cleanup call - changes the container's children or calls render or else.
C18_WhenCleanupFinal ==
  [][/\ (ev'.kind = "unsubscribe" /\ ev'.obs = UtilObs) =>
          /\ ~SetHas(observers', UtilObs)
          /\ wh'.cleaned /\ ~wh'.threw
          /\ wh'.children = SelectSeq(wh.children, LAMBDA n : n # wh.currentElement)
     /\ wh.cleaned =>
          /\ wh'.children = wh.children
          /\ wh'.renderCalls = wh.renderCalls /\ wh'.elseCalls = wh.elseCalls
          /\ ~SetHas(observers', UtilObs)]_vars

\* C18 witness: a conditional with a mounted render node was cleaned up and
\* the state then turned false while another observer was notified: the
\* container holds only its other child, else was never called
C18_Witness ==
  /\ wh.cleaned /\ wh.hasElse
  /\ ev.kind = "notify" /\ ev.obs # UtilObs
  /\ ~Condition /\ wh.currentCondition
  /\ wh.renderCalls = 1 /\ wh.elseCalls = 0
  /\ wh.children = <<Foreign>>

\* The callback of renderList has just run (at creation or in a pass)
ListReconciled == ev.kind = "list" \/ (ev.kind = "notify" /\ ev.obs = UtilObs)

\* The nodes the reconciler has mounted in the container, by position
ItemNodesAt(children) == {i \in DOMAIN children : children[i].branch = "item"}

\* C19: when the callback of renderList has run, and whenever no call is in
\* progress (before any cleanup), the tracked keys are exactly the keys of
\* the current items, every tracked entry holds the snapshot of an item with
\* its key, and the item nodes in the container are exactly the tracked
\* entries' nodes, each once.
C19_ListTracksCurrentKeys ==
  (rl.made /\ ~rl.cleaned /\ (ListReconciled \/ stack = <<>>)) =>
    /\ DOMAIN rl.elementMap = KeysOf(rl.keyFn, rl.items)
    /\ \A k \in DOMAIN rl.elementMap :
         \E i \in DOMAIN rl.items :
            KeyOf(rl.keyFn, rl.items[i]) = k /\ rl.elementMap[k].data = rl.items[i]
    /\ {rl.children[i] : i \in ItemNodesAt(rl.children)}
         = {rl.elementMap[k].element : k \in DOMAIN rl.elementMap}
    /\ Cardinality(ItemNodesAt(rl.children)) = Cardinality(DOMAIN rl.elementMap)

\* C19 witness: items 1 and 2 were rendered, item 1 was removed and an item
\* with a new key pushed: node 1 is detached, nodes 2 and 3 are mounted
C19_Witness ==
  /\ ListReconciled /\ ~rl.cleaned
  /\ rl.keyFn = "id"
  /\ rl.children = <<Foreign, Node("item", 2), Node("item", 3)>>
  /\ DOMAIN rl.elementMap = {<<2>>, <<1>>}
  /\ rl.elementMap[<<1>>].element = Node("item", 3)
  /\ rl.items[1].id = 2 /\ rl.items[2].id = 1

\* No two items of the list have the same key
DistinctKeys(keyFn, items) ==
  \A i, j \in DOMAIN items : KeyOf(keyFn, items[i]) = KeyOf(keyFn, items[j]) => i = j

FirstNew(keyFn, items, map) ==
  SelectSeq([i \in DOMAIN items |-> i],
            LAMBDA i : /\ KeyOf(keyFn, items[i]) \notin DOMAIN map
                       /\ \A j \in 1..(i - 1) :
                            KeyOf(keyFn, items[j]) # KeyOf(keyFn, items[i]))

\* C21: a pass of renderList (the initial one included) leaves in the
\* container, in this order: the children it found, each node whose key is
\* still in the list being at its place or having its successor there, the
\* nodes of vanished keys taken out; then the nodes of the new keys, in the
\* order of the new items in the list.  So surviving nodes keep their
\* relative order whatever the order of the list.
C21_ListNodeOrder ==
  [][(rl'.made /\ (ev'.kind = "list" \/ (ev'.kind = "notify" /\ ev'.obs = UtilObs))) =>
       LET found == IF ev'.kind = "list"
                    THEN SelectSeq(rl'.children, LAMBDA n : n = Foreign)
                    ELSE rl.children
           Tracked(n) == \E k \in DOMAIN rl.elementMap : rl.elementMap[k].element = n
           KeyAt(n) == CHOOSE k \in DOMAIN rl.elementMap : rl.elementMap[k].element = n
           Stays(n) == Tracked(n) => KeyAt(n) \in DOMAIN rl'.elementMap
           Now(n) == IF Tracked(n) THEN rl'.elementMap[KeyAt(n)].element ELSE n
           kept == SelectSeq(found, Stays)
           new == FirstNew(rl'.keyFn, rl.items, rl.elementMap)
       IN rl'.children =
            [i \in DOMAIN kept |-> Now(kept[i])]
            \o [i \in DOMAIN new |->
                  rl'.elementMap[KeyOf(rl'.keyFn, rl.items[new[i]])].element]]_vars

\* C21 witness: items 1 and 2 were rendered in source order, items[1].text
\* was written and the list reversed: the successor of node 1 is first, node
\* 2 second, though item 2 is now first in the list
C21_Witness ==
  /\ ev.kind = "notify" /\ ev.obs = UtilObs
  /\ rl.keyFn = "id"
  /\ rl.children = <<Node("item", 3), Node("item", 2)>>
  /\ rl.items[1].id = 2 /\ rl.items[2].id = 1
  /\ rl.elementMap[<<1>>].element = Node("item", 3)

\* C22: once the cleanup renderList returned has been called, no step
\* calls itemRenderer, changes the children of the container or changes
\* the tracked entries: the nodes mounted stay mounted.
C22_ListCleanupFreezes ==
  [][rl.cleaned =>
       /\ rl'.children = rl.children
       /\ rl'.elementMap = rl.elementMap
       /\ rl'.renderCalls = rl.renderCalls
       /\ rl'.cleaned]_vars

\* C22 witness: two items are mounted, cleanup was called, then an item was
\* removed through the proxy: its node is still mounted
C22_Witness ==
  /\ rl.cleaned
  /\ ev.kind = "items" /\ ev.call.kind = "remove" /\ Len(rl.items) = 1
  /\ Cardinality(ItemNodesAt(rl.children)) = 2

\* The last step rendered a route after a navigation: navigate, popstate, or
\* a click on a link that found the router
Rendered(r) ==
  \/ r.last.kind \in {"navigate", "popstate"}
  \/ (r.last.kind = "click" /\ r.last.navigated)

Before(log, a, b) ==
  \A i, j \in DOMAIN log : (log[i] = a /\ log[j] = b) => i < j

\* C23: in every route render after a navigation, the cleanup of the route
\* rendered before (if its factory returned one) is called once, for the
\* first time, before the factory of the new route is called and its element
\* mounted; no other cleanup is called; the container then holds the element
\* the factory has just returned, or nothing.
C23_RouterCleanupOnce ==
  [][(rt.made /\ rt'.made /\ Rendered(rt')) =>
       LET had == IF rt.container = <<>> THEN FALSE
                  ELSE HasCleanup(rt.container[1].route)
           prev == IF rt.container = <<>> THEN 0 ELSE rt.container[1].id
       IN /\ \A i \in DOMAIN rt.cleanupCalls :
               rt'.cleanupCalls[i] =
                 IF had /\ i = prev THEN 1 ELSE rt.cleanupCalls[i]
          /\ had => /\ rt.cleanupCalls[prev] = 0
                    /\ \E i \in DOMAIN rt'.log : rt'.log[i] = "cleanup"
                    /\ Before(rt'.log, "cleanup", "factory")
                    /\ Before(rt'.log, "cleanup", "mount")
          /\ \/ rt'.container = <<>>
             \/ /\ Len(rt'.container) = 1
                /\ rt'.container[1].id = rt.renders + 1
                /\ rt'.renders = rt.renders + 1
                /\ rt'.cleanupCalls[rt'.renders] = 0]_vars

\* C23 witness: "/a" (with a cleanup) was rendered at creation, then "/b"
\* (without), then "/a" again: the first cleanup ran once, the second not yet
C23_Witness ==
  /\ Rendered(rt)
  /\ rt.renders = 3 /\ rt.cleanupCalls = <<1, 0, 0>>
  /\ rt.container = <<[route |-> "/a", id |-> 3]>>
  /\ rt.cleanup = 3

\* The path the last render was asked for
RenderedPath(r) == IF r.last.kind = "create" THEN r.loc.pathname ELSE r.last.path

\* C24: after a render of a path that is not in the route table, the
\* container holds the element of the "/" route if the table has one,
\* otherwise of the first-declared route; with an empty table it is empty
\* and no cleanup is recorded.
C24_RouterFallback ==
  (rt.made /\ (Rendered(rt) \/ rt.last.kind = "create")
     /\ ~Own(rt.routes, RenderedPath(rt))) =>
    IF Own(rt.routes, "/")
    THEN Len(rt.container) = 1 /\ rt.container[1].route = "/"
    ELSE IF rt.routes # <<>>
         THEN Len(rt.container) = 1 /\ rt.container[1].route = rt.routes[1]
         ELSE rt.container = <<>> /\ rt.cleanup = 0

\* The query observers registered: observed, and no unsubscribe function of
\* theirs called since
Registered(r) == r.handed \ r.unsubscribed

\* Every observer of the set was invoked once with params, and nobody else
NotifiedOnce(r, obs, params) ==
  /\ \A o \in obs :
       Cardinality({i \in DOMAIN r.notified : r.notified[i].obs = o}) = 1
  /\ \A i \in DOMAIN r.notified :
       r.notified[i].obs \in obs /\ r.notified[i].params = params

\* The parameters as the observers receive them: every value as a string
AsStrings(params) ==
  [i \in DOMAIN params |-> [key |-> params[i].key, value |-> QStr(params[i].value.s)]]

\* C25: observeQueryParams(cb) invokes cb, and nobody else, once with the
\* current parameters; updateQueryParams(params) invokes every registered
\* observer once with the new parameters and no observer whose unsubscribe
\* function has been called.
C25_QueryObservers ==
  [][/\ rt'.last.kind = "observeQueryParams" =>
          /\ NotifiedOnce(rt', {rt'.last.obs}, rt.currentQueryParams)
          /\ rt'.last.obs \in Registered(rt')
     /\ rt'.last.kind = "updateQueryParams" =>
          /\ NotifiedOnce(rt', Registered(rt), AsStrings(rt'.last.params))
          /\ rt'.currentQueryParams = AsStrings(rt'.last.params)]_vars

\* C25 witness: observers 1 and 2 subscribed, the function observer 1 got
\* back was called, then updateQueryParams({a: 1}): observer 2 alone is
\* invoked, with {a: "1"}
C25_Witness ==
  /\ rt.last.kind = "updateQueryParams"
  /\ rt.unsubscribed = {1} /\ rt.handed = {1, 2}
  /\ rt.notified = <<[obs |-> 2, params |-> <<[key |-> "a", value |-> QStr("1")]>>]>>

\* The mapping a parameter object holds: its key/value pairs
AsMap(params) == {<<params[i].key, params[i].value.s>> : i \in DOMAIN params}

\* C26: a render after navigate or popstate invokes every registered query
\* observer once with the parameters of the new URL if their mapping
\* differs from the cached parameters' mapping, and invokes none if both
\* hold the same key/value pairs; the render at creation invokes none.
C26_NavigationNotifiesOnChange ==
  [][/\ (rt.made /\ rt'.made /\ Rendered(rt')) =>
          LET new == parseQueryParams(rt'.loc.search)
          IN IF AsMap(new) # AsMap(rt.currentQueryParams)
             THEN NotifiedOnce(rt', Registered(rt), new)
             ELSE rt'.notified = <<>>
     /\ rt'.last.kind = "create" => rt'.notified = <<>>]_vars

\* C27: updateQueryParams changes the query string and the cached
\* parameters only: the pathname, the container's element, the recorded
\* cleanup and the numbers of factory and cleanup calls stay as they were.
C27_UpdateQueryParamsFrame ==
  [][rt'.last.kind = "updateQueryParams" =>
       /\ rt'.loc = [pathname |-> rt.loc.pathname,
                     search |-> serializeQueryParams(rt'.last.params)]
       /\ rt'.container = rt.container
       /\ rt'.cleanup = rt.cleanup
       /\ rt'.renders = rt.renders
       /\ rt'.cleanupCalls = rt.cleanupCalls
       /\ \A i \in DOMAIN rt'.log : rt'.log[i] = "notify"]_vars

\* C27 witness: route "/a", which has a cleanup, is mounted; the query
\* string was changed by updateQueryParams and an observer told
C27_Witness ==
  /\ rt.last.kind = "updateQueryParams"
  /\ rt.container = <<[route |-> "/a", id |-> 1]>> /\ rt.cleanup = 1
  /\ rt.cleanupCalls = <<0>>
  /\ Len(rt.loc.search) = 2 /\ Len(rt.notified) = 1

\* C28: when a router has been created, a click on a link calls its
\* navigate(path); the branch with the warning and the assignment of
\* window.location.href is not taken.
C28_LinkFindsRouter ==
  (rt.last.kind = "click" /\ rt.last.created) => rt.last.navigated

\* C29: a call of the debounced function does not invoke func and leaves a
\* timer due wait later; when a timer runs, no call has been made for wait
\* or more, and func is invoked with the arguments of the last call, for the
\* first time since that call.
C29_DebounceBurst ==
  [][/\ db'.last.kind = "call" =>
          /\ db'.funcCalls = db.funcCalls
          /\ db'.pending /\ db'.due = db.now + Wait
     /\ db'.last.kind = "timer" =>
          /\ Len(db'.funcCalls) = Len(db.funcCalls) + 1
          /\ db'.funcCalls[Len(db'.funcCalls)].args = db.lastArgs[1]
          /\ db.now >= db.lastCallAt + Wait
          /\ db.now <= db.lastCallAt + Wait + MaxLate
          /\ \A i \in DOMAIN db.funcCalls : db.funcCalls[i].call < db.calls
          /\ ~db'.pending]_vars

\* C29 witness: calls with arguments 0 and 1 at times 0 and 1, then the
\* timer at time 3: func was invoked once, with 1
C29_Witness ==
  /\ db.last.kind = "timer"
  /\ db.calls = 2 /\ db.lastCallAt = 1
  /\ db.funcCalls = <<[at |-> 3, args |-> 1, by |-> "timer", call |-> 2]>>

\* C30: flush() while a timer is pending invokes func once, with the
\* arguments of the most recent call, returns its value, and leaves no
\* timer pending: the time flush left behind, func is invoked again only
\* after a new call.
C30_FlushPending ==
  [][/\ (db'.last.kind = "flush" /\ db.pending) =>
          /\ db'.funcCalls = Append(db.funcCalls,
                                    [at |-> db.now, args |-> db.lastArgs[1],
                                     by |-> "flush", call |-> db.calls])
          /\ db'.last.returned = <<Func(db.lastArgs[1])>>
          /\ ~db'.pending
     /\ (db'.last.kind = "timer" /\ db.funcCalls # <<>>) =>
          db.funcCalls[Len(db.funcCalls)].call < db.calls]_vars

\* C30 witness: calls at time 0 with 0 and 1, flush at time 1 (func invoked
\* with 1), and the clock has passed the time the timer was due
C30_Witness ==
  /\ db.funcCalls = <<[at |-> 1, args |-> 1, by |-> "flush", call |-> 2]>>
  /\ db.now > db.due /\ db.ops = 3 /\ ~db.pending

\* C31: cancel() on a debounced or a throttled function leaves no timer
\* pending, and afterwards no timer runs, whatever the time, until the
\* function is called again.
C31_CancelPreventsTimer ==
  [][/\ db'.last.kind = "cancel" => ~db'.pending
     /\ (db.cancelled /\ db' # db) => db'.last.kind # "timer"
     /\ (db.cancelled /\ db'.last.kind # "call") =>
           (db'.funcCalls = db.funcCalls \/ db'.last.kind = "flush")
     /\ th'.last.kind = "cancel" => ~th'.pending
     /\ (th.cancelled /\ th' # th) => th'.last.kind # "timer"
     /\ (th.cancelled /\ th'.last.kind # "call") => th'.funcCalls = th.funcCalls]_vars

\* C31 witness: a throttled function executed at time 0, was called again
\* at time 1 (a timer is set for time 2) and cancelled; the clock is past 2
\* and func has been invoked once
C31_Witness ==
  /\ th.cancelled /\ th.calls = 2 /\ th.now > th.due /\ th.due = Wait
  /\ Len(th.funcCalls) = 1 /\ th.lastArgs # <<>>

\* The time of the last execution of func by the throttled function
LastExec(t) == t.funcCalls[Len(t.funcCalls)].at

\* C32: the first call of a throttled function invokes func at once with
\* its arguments; a call less than wait after the last execution does not
\* invoke func and leaves a timer pending, set (when this call sets it) for
\* the end of the wait period; when the timer runs, func is invoked once,
\* with the arguments of the last call that was held back, and nothing is
\* left pending.
C32_ThrottleLeadingAndTrailing ==
  [][/\ (th'.last.kind = "call" /\ th.calls = 0) =>
          th'.funcCalls = <<[at |-> th.now, args |-> th'.last.args,
                             by |-> "call", call |-> 1]>>
     /\ (th'.last.kind = "call" /\ th.funcCalls # <<>>) =>
          (th.now - LastExec(th) < Wait =>
             /\ th'.funcCalls = th.funcCalls
             /\ th'.pending
             /\ ~th.pending => th'.due = LastExec(th) + Wait)
     /\ (th'.last.kind = "timer" /\ th.held # <<>>) =>
          /\ Len(th'.funcCalls) = Len(th.funcCalls) + 1
          /\ th'.funcCalls[Len(th'.funcCalls)].args = th.held[Len(th.held)]
          /\ th'.funcCalls[Len(th'.funcCalls)].at = th.now
          /\ ~th'.pending /\ th'.lastArgs = <<>>]_vars

\* C32 witness: call with 0 at time 0 (executed), calls with 0 and 1 at time
\* 1 (held back), timer at time 2: func invoked with 1
C32_Witness ==
  /\ th.last.kind = "timer"
  /\ th.funcCalls = <<[at |-> 0, args |-> 0, by |-> "call", call |-> 1],
                      [at |-> 2, args |-> 1, by |-> "timer", call |-> 3]>>

\* C33: any two consecutive invocations of func by a throttled function
\* are at least wait apart.
C33_ThrottleSpacing ==
  \A i \in 1..(Len(th.funcCalls) - 1) :
     th.funcCalls[i + 1].at - th.funcCalls[i].at >= Wait

C35_NeverStale ==
  ev.kind = "invoke" => ev.got = Getter

\* C36: whenever no call is in progress, the last invocation of every
\* registered observer came after the last change of the value: it was
\* handed the current value.
C36_QuiescentConsistency ==
  stack = <<>> => \A i \in DOMAIN observers : seen[observers[i]]

\* C36 witness: a top-level write whose pass invoked an observer that wrote
\* the state again has returned: two observers are registered and each was
\* invoked by the pass of the second write
C36_Witness ==
  /\ stack = <<>> /\ ev.kind = "passEnd"
  /\ variant = "deep" /\ target.count = 0 /\ nOps = 2
  /\ Len(observers) = 2
  /\ \A i \in DOMAIN observers : seen[observers[i]] /\ calls[observers[i]] >= 2

\* The last item of the list that has key k
LastWith(keyFn, items, k) ==
  items[CHOOSE i \in DOMAIN items :
          /\ KeyOf(keyFn, items[i]) = k
          /\ \A j \in DOMAIN items : KeyOf(keyFn, items[j]) = k => j <= i]
Colliding(keyFn, items) ==
  \E i, j \in DOMAIN items : i # j /\ KeyOf(keyFn, items[i]) = KeyOf(keyFn, items[j])

\* C37: after a pass of renderList over a list in which items share a key,
\* the container holds as many of its nodes as the list has distinct keys,
\* and the entry of every key holds the snapshot of the last item with that
\* key and a mounted node that was rendered from that item's value.
C37_CollidingKeysLastWins ==
  (rl.made /\ ListReconciled /\ Colliding(rl.keyFn, rl.items)) =>
    /\ Cardinality(ItemNodesAt(rl.children))
         = Cardinality(KeysOf(rl.keyFn, rl.items))
    /\ DOMAIN rl.elementMap = KeysOf(rl.keyFn, rl.items)
    /\ \A k \in DOMAIN rl.elementMap :
         LET e == rl.elementMap[k] last == LastWith(rl.keyFn, rl.items, k)
         IN  /\ e.data = last
             /\ rl.renders[e.element.id] = last
             /\ Contains(rl.children, e.element)

\* C37 witness: two items with the same id and different texts went
\* through a pass: one node, rendered from the second item
C37_Witness ==
  /\ ListReconciled /\ rl.keyFn = "id"
  /\ rl.items = <<[id |-> 1, text |-> 0], [id |-> 1, text |-> 1]>>
  /\ Len(rl.children) = 1
  /\ rl.elementMap[<<1>>].data.text = 1

\* C38: with the default key, a pass replaces no node in place: every
\* entry that survives the pass keeps its node, and the children after the
\* pass are the surviving children in their order followed by the nodes
\* rendered in the pass; an item whose value changed is among the latter.
C38_DefaultKeyAppends ==
  [][(ev'.kind = "notify" /\ ev'.obs = UtilObs /\ rl.keyFn = "json") =>
       LET fresh == {Node("item", n) : n \in (rl.renderCalls + 1)..rl'.renderCalls}
           kept == SelectSeq(rl.children, LAMBDA n : Contains(rl'.children, n))
       IN  /\ \A k \in DOMAIN rl.elementMap \cap DOMAIN rl'.elementMap :
                rl'.elementMap[k].element = rl.elementMap[k].element
           /\ \A i \in DOMAIN kept : rl'.children[i] = kept[i]
           /\ \A i \in DOMAIN rl'.children :
                i > Len(kept) => rl'.children[i] \in fresh]_vars

\* C39: flush() with no timer pending (the function was never called, the
\* timer has run, or the call was cancelled) does not invoke func, and no
\* call of the debounced function is executed twice.
C39_FlushOnlyPending ==
  [][/\ (db'.last.kind = "flush" /\ ~db.pending) => db'.funcCalls = db.funcCalls
     /\ \A i, j \in DOMAIN db'.funcCalls :
          db'.funcCalls[i].call = db'.funcCalls[j].call => i = j]_vars

\* C40: isDeepEqual(a, a) is true; isDeepEqual(a, b) is isDeepEqual(b, a);
\* it is true for two identical primitives and for one object compared
\* with itself, false when exactly one side is a primitive or null, and for
\* two objects true exactly when they have the same own keys and deep-equal
\* values under every key.
C40_DeepEqualEquivalence ==
  eq.done =>
    LET a == eq.a  b == eq.b
        identical == IF a.t = "obj" THEN eq.same ELSE a = b
    IN  /\ identical => eq.out
        /\ eq.out = isDeepEqualOf(b, a, eq.same)
        /\ ((a.t = "obj") # (b.t = "obj")) => ~eq.out
        /\ (a.t = "obj" /\ b.t = "obj") =>
             (eq.out <=> /\ ObjectKeys(a) = ObjectKeys(b)
                         /\ \A k \in ObjectKeys(a) :
                              isDeepEqualOf(a.props[k], b.props[k], FALSE))

====
